---- MODULE Spec2Model ----
(***************************************************************************)
(* Reconciliation engine of the stackset-controller: the lifecycle         *)
(* decider (NewStack, MarkExpiredStacks) of pkg/core/stackset.go and the   *)
(* replica planner (GenerateDeployment) of pkg/core/stack_resources.go.    *)
(*                                                                         *)
(* Optional values (Go pointers that may be nil) are sequences of length 0 *)
(* (nil / unset) or 1 (a pointer to the value), so that unset and zero     *)
(* stay distinct.  time.Time is an integer, 0 being the zero time.         *)
(***************************************************************************)
EXTENDS Integers, Sequences, FiniteSets, TLC

VARIABLES
    StackSet,         \* the StackSet object (ssc.StackSet)
    StackContainers,  \* the working set (ssc.StackContainers)
    now,              \* the wall clock read by time.Since
    pc,               \* position of the reconciliation loop
    input,            \* names of the Stacks the reconciliation started with
    newStack,         \* the result of the last NewStack call
    deployment,       \* the result of the last GenerateDeployment call
    hpa,              \* the result of the last GenerateHPA call
    service,          \* the result of the last GenerateService call
    ingress,          \* the result of the last StackSetContainer.GenerateIngress call
    err,              \* the error the last call returned, Nil for none
    status,           \* the result of the last GenerateStackSetStatus call
    cluster,          \* the objects stored in the cluster, by kind
    previous,         \* the results of the previous reconciliations, or Nil
    created           \* the names of the Stacks the writer created, in order

\* The results of the generators other than GenerateDeployment.
generated == <<hpa, service, ingress, err, status>>

vars == <<StackSet, StackContainers, now, pc, input, newStack, deployment,
          generated, cluster, previous, created>>

----------------------------------------------------------------------------
(* Bounds of the model *)

MaxTime == 3                \* the clock runs from 1 to MaxTime
MaxLimit == 1               \* stackLifecycle.limit is unset or in 0..MaxLimit
MaxReplicas == 2            \* replica counts are in 0..MaxReplicas
MaxStacks == 12             \* SpecRetention: working sets of up to MaxStacks Stacks

MaxPorts == 2               \* SpecService: ports of a container, of a service spec
ScaledownTTL == 1           \* scaledownTTLSeconds of the StackSet, in clock units

Versions == {"", "v1", "v2"}  \* template versions the user writes
Weights == {0, 100}           \* traffic weights that occur

Nil == <<>>
Ptr(v) == <<v>>
Deref(p) == p[1]

\* No generator other than GenerateDeployment has run, and the cluster holds
\* no object of the Stacks.
NothingGenerated ==
    /\ hpa = Nil
    /\ service = Nil
    /\ ingress = Nil
    /\ err = Nil
    /\ status = Nil
    /\ cluster = <<>>
    /\ previous = Nil
    /\ created = <<>>

----------------------------------------------------------------------------
(* Constants and predicates of pkg/core/types.go *)

defaultVersion == "01"
defaultStackLifecycleLimit == 10

StackSetName == "foo"
StackSetUID == "123"

HasTraffic(sc) ==
    sc.actualTrafficWeight > 0 \/ sc.desiredTrafficWeight > 0

IsAutoscaled(sc) == sc.autoscaled

\* The deployment runs at least one replica and all of them are updated and
\* ready.
IsReady(sc) ==
    /\ sc.deploymentReplicas = sc.readyReplicas
    /\ sc.readyReplicas = sc.updatedReplicas
    /\ sc.deploymentReplicas >= 1

ScaledDown(sc) ==
    /\ ~HasTraffic(sc)
    /\ sc.noTrafficSince # 0
    /\ now - sc.noTrafficSince >= sc.scaledownTTL

stackByName(scs, name) ==
    IF \E sc \in scs : sc.name = name
    THEN Ptr(CHOOSE sc \in scs : sc.name = name)
    ELSE Nil

Names(scs) == {sc.name : sc \in scs}

----------------------------------------------------------------------------
(* pkg/core/stackset.go *)

StacksetHeritageLabelKey == "stackset"
StackVersionLabelKey == "stack-version"

errNoPaths == "invalid ingress, no paths defined"
errNoStacks == "no stacks to assign traffic to"

\* A map[string]string is a function from its keys; nil and the empty map,
\* which Go reads alike, are both the function with the empty domain.
NoLabels == <<>>

\* mergeLabels(labelMaps ...) of pkg/core/types.go: the maps laid over one
\* another, a later map replacing the values of an earlier one.
mergeLabels(labelMaps) ==
    LET holds(k) == {i \in DOMAIN labelMaps : k \in DOMAIN labelMaps[i]}
        last(k) == CHOOSE i \in holds(k) : \A j \in holds(k) : j <= i
    IN  [k \in UNION {DOMAIN labelMaps[i] : i \in DOMAIN labelMaps} |->
            labelMaps[last(k)][k]]

\* The labels of a Stack of a StackSet whose labels the user left alone.
StackLabels(stacksetName, version) ==
    mergeLabels(<<StacksetHeritageLabelKey :> stacksetName,
                  StackVersionLabelKey :> version>>)

\* Mutant: the template version is used as written, without the default.
currentStackVersionAsWritten(stackset) == stackset.version

currentStackVersion(stackset) ==
    IF stackset.version = "" THEN defaultVersion ELSE stackset.version

generateStackName(stackset, version) ==
    stackset.name \o "-" \o version

\* The OwnerReferences NewStack gives the Stack.
OwnerReferences(stackset) ==
    <<[kind |-> "StackSet", name |-> stackset.name, uid |-> stackset.uid]>>

\* sanitizeServicePorts: the ports of the service spec with the protocol
\* defaulted to TCP.  The Go function writes the ports back into the slice it
\* was given and returns the pointer it was given.
sanitizeServicePorts(ports) ==
    [i \in DOMAIN ports |->
        IF ports[i].protocol = ""
        THEN [ports[i] EXCEPT !.protocol = "TCP"]
        ELSE ports[i]]

\* The service spec of the template, for the StackSets whose template's
\* service is modelled.
TemplateService(stackset) ==
    IF "service" \in DOMAIN stackset
    THEN [service |-> IF stackset.service # Nil
                      THEN Ptr(sanitizeServicePorts(Deref(stackset.service)))
                      ELSE Nil]
    ELSE <<>>

\* The StackContainer NewStack returns: only the Stack is filled in, the
\* observed fields have Go's zero values.
EmittedStack(stackset, stackName, stackVersion) ==
    [ name                 |-> stackName,
      version              |-> stackVersion,
      ownerReferences      |-> OwnerReferences(stackset),
      labels               |-> mergeLabels(
                                  <<StacksetHeritageLabelKey :> stackset.name,
                                    stackset.labels,
                                    StackVersionLabelKey :> stackVersion>>),
      podTemplateLabels    |-> stackset.podTemplateLabels,
      creationTimestamp    |-> 0,
      stackReplicas        |-> 0,
      autoscaled           |-> stackset.autoscaled,
      replicas             |-> stackset.replicas,
      ingressSpec          |-> Nil,
      scaledownTTL         |-> 0,
      actualTrafficWeight  |-> 0,
      desiredTrafficWeight |-> 0,
      noTrafficSince       |-> 0,
      deploymentReplicas   |-> 0,
      prescalingActive     |-> FALSE,
      prescalingReplicas   |-> 0,
      PendingRemoval       |-> FALSE,
      generation           |-> 0 ] @@ TemplateService(stackset)
\* Mutant: a missing Stack is emitted whatever version was observed.
NewStackIgnoringObserved(stackset, scs) ==
    LET stackVersion == currentStackVersion(stackset)
        stackName == generateStackName(stackset, stackVersion)
    IN  IF stackByName(scs, stackName) = Nil
        THEN [stack |-> Ptr(EmittedStack(stackset, stackName, stackVersion)),
              version |-> stackVersion]
        ELSE [stack |-> Nil, version |-> ""]

NewStack(stackset, scs) ==
    LET observedStackVersion == stackset.observedStackVersion
        stackVersion == currentStackVersion(stackset)
        stackName == generateStackName(stackset, stackVersion)
        stack == stackByName(scs, stackName)
    IN  IF stack = Nil /\ observedStackVersion # stackVersion
        THEN [stack |-> Ptr(EmittedStack(stackset, stackName, stackVersion)),
              version |-> stackVersion]
        ELSE [stack |-> Nil, version |-> ""]

\* The StackSet after NewStack: when a Stack is emitted, sanitizeServicePorts
\* has written the defaulted ports into the StackSet's own template.
StackSetAfterNewStack(stackset, scs) ==
    IF NewStack(stackset, scs).stack # Nil
    THEN [f \in DOMAIN stackset |->
             IF f = "service" THEN TemplateService(stackset).service
             ELSE stackset[f]]
    ELSE stackset

historyLimit(stackset) ==
    IF stackset.limit # Nil THEN Deref(stackset.limit)
    ELSE defaultStackLifecycleLimit
\* Mutant: every Stack is a candidate.
gcCandidatesAll(scs) == scs

\* Mutant: a Stack is a candidate as soon as it serves no traffic.
gcCandidatesNotServing(scs) ==
    {sc \in scs : sc.ingressSpec = Nil \/ sc.actualTrafficWeight = 0}

gcCandidates(scs) ==
    {sc \in scs : sc.ingressSpec = Nil \/ ScaledDown(sc)}
\* Mutant: the comparison is reversed, the newest come first.
RECURSIVE SortedByNewest(_)
SortedByNewest(cands) ==
    IF cands = {} THEN {<<>>}
    ELSE UNION {{<<first>> \o rest : rest \in SortedByNewest(cands \ {first})} :
                  first \in {c \in cands : \A d \in cands :
                                ~(c.creationTimestamp < d.creationTimestamp)}}

\* The orders sort.Slice can leave the candidates in: every arrangement in
\* which no element is created before one that precedes it (the sort is not
\* stable and the working set is a map, so ties come out in any order).
RECURSIVE SortedByOldest(_)
SortedByOldest(cands) ==
    IF cands = {} THEN {<<>>}
    ELSE UNION {{<<first>> \o rest : rest \in SortedByOldest(cands \ {first})} :
                  first \in {c \in cands : \A d \in cands :
                                ~(d.creationTimestamp < c.creationTimestamp)}}

\* Mutant: over the limit, every candidate is flagged.
ExpiredStacksAllCandidates(stackset, scs) ==
    LET cands == gcCandidates(scs)
    IN  IF Cardinality(cands) <= historyLimit(stackset)
        THEN {{}}
        ELSE {{sc.name : sc \in cands}}

\* The sets of Stacks MarkExpiredStacks can flag.
ExpiredStacks(stackset, scs) ==
    LET cands == gcCandidates(scs)
        limit == historyLimit(stackset)
    IN  IF Cardinality(cands) <= limit
        THEN {{}}
        ELSE LET excessStacks == Cardinality(cands) - limit
             IN  {{s[i].name : i \in 1..excessStacks} : s \in SortedByOldest(cands)}
\* Mutant: the expired Stacks are dropped from the working set.
MarkExpiredStacksRemoving(scs, expired) ==
    {sc \in scs : sc.name \notin expired}

MarkExpiredStacks(scs, expired) ==
    {IF sc.name \in expired THEN [sc EXCEPT !.PendingRemoval = TRUE] ELSE sc :
        sc \in scs}

\* The annotation keys of pkg/core/types.go.
backendWeightsAnnotationKey == "zalando.org/backend-weights"
stackTrafficWeightsAnnotationKey == "zalando.org/stack-traffic-weights"

\* Stack names in Go's string order (bytewise: a digit sorts before a letter).
SortedNames == <<"foo-01", "foo-v1", "foo-v2">>

NameIndex(name) == CHOOSE n \in DOMAIN SortedNames : SortedNames[n] = name

\* a < b on strings.
StringLess(a, b) == NameIndex(a) < NameIndex(b)

\* json.Marshal of a map[string]float64: the keys in sorted order.
RECURSIVE jsonMembers(_, _, _)
jsonMembers(m, n, first) ==
    IF n > Len(SortedNames) THEN ""
    ELSE IF SortedNames[n] \notin DOMAIN m THEN jsonMembers(m, n + 1, first)
    ELSE (IF first THEN "" ELSE ",")
            \o "\"" \o SortedNames[n] \o "\":" \o ToString(m[SortedNames[n]])
            \o jsonMembers(m, n + 1, FALSE)

jsonMarshal(m) == "{" \o jsonMembers(m, 1, TRUE) \o "}"

\* The orders in which a range over the map of StackContainers can run.
IterationOrders(scs) ==
    {order \in [1..Cardinality(scs) -> scs] :
        \A i, j \in DOMAIN order : i # j => order[i] # order[j]}

\* Mutant: a path for every Stack.
ingressPathsOfEveryStack(stackset, order) ==
    [n \in DOMAIN order |->
        [ path        |-> Deref(stackset.ingress).path,
          serviceName |-> order[n].name,
          servicePort |-> Deref(stackset.ingress).backendPort ]]

\* GenerateIngress, the loop: the paths appended in iteration order.
ingressPaths(stackset, order) ==
    LET serving == SelectSeq(order, LAMBDA sc : sc.actualTrafficWeight > 0)
    IN  [n \in DOMAIN serving |->
            [ path        |-> Deref(stackset.ingress).path,
              serviceName |-> serving[n].name,
              servicePort |-> Deref(stackset.ingress).backendPort ]]

\* Mutant: every Stack is entered, also with weight 0.
actualWeightsOfEveryStack(order) ==
    [name \in {order[n].name : n \in DOMAIN order} |->
        (CHOOSE sc \in {order[n] : n \in DOMAIN order} :
            sc.name = name).actualTrafficWeight]

\* GenerateIngress, the loop: actualWeights.
actualWeights(order) ==
    LET serving == {order[n] : n \in {i \in DOMAIN order :
                                         order[i].actualTrafficWeight > 0}}
    IN  [name \in {sc.name : sc \in serving} |->
            (CHOOSE sc \in serving : sc.name = name).actualTrafficWeight]

\* GenerateIngress, the loop: desiredWeights.
desiredWeights(order) ==
    LET desired == {order[n] : n \in {i \in DOMAIN order :
                                         order[i].desiredTrafficWeight > 0}}
    IN  [name \in {sc.name : sc \in desired} |->
            (CHOOSE sc \in desired : sc.name = name).desiredTrafficWeight]

\* Mutant: the paths stay in iteration order.
sortSliceSkipped(paths) == {paths}

\* sort.Slice by ServiceName: the sort is not stable, so every arrangement
\* of the paths that ascends by ServiceName is a possible outcome.
sortSlice(paths) ==
    {[n \in DOMAIN paths |-> paths[perm[n]]] :
        perm \in {p \in [DOMAIN paths -> DOMAIN paths] :
                     /\ \A i, j \in DOMAIN paths : i # j => p[i] # p[j]
                     /\ \A i, j \in DOMAIN paths :
                           i < j => ~StringLess(paths[p[j]].serviceName,
                                                paths[p[i]].serviceName)}}

\* The results StackSetContainer.GenerateIngress can return when the range
\* over the StackContainers runs in this order.
GenerateIngress(stackset, order) ==
    IF stackset.ingress = Nil
    THEN {[ingress |-> Nil, err |-> Nil]}
    ELSE LET paths == ingressPaths(stackset, order)
             hosts == Deref(stackset.ingress).hosts
         IN  IF Len(paths) = 0
             THEN {[ingress |-> Nil, err |-> Ptr(errNoPaths)]}
             ELSE {[ingress |-> Ptr(
                       [ name            |-> stackset.name,
                         labels          |-> mergeLabels(
                                                <<StacksetHeritageLabelKey :> stackset.name,
                                                  stackset.labels>>),
                         ownerReferences |-> OwnerReferences(stackset),
                         annotations     |-> mergeLabels(
                             <<Deref(stackset.ingress).annotations,
                               backendWeightsAnnotationKey :>
                                   jsonMarshal(actualWeights(order)),
                               stackTrafficWeightsAnnotationKey :>
                                   jsonMarshal(desiredWeights(order))>>),
                         rules           |->
                             [h \in DOMAIN hosts |->
                                 [host |-> hosts[h], paths |-> sorted]] ]),
                    err |-> Nil] : sorted \in sortSlice(paths)}

\* Mutant: the Stacks flagged for removal are counted too.
GenerateStackSetStatusCountingPending(stackset, scs) ==
    LET counted == scs
    IN  [ stacks               |-> Cardinality(counted),
          readyStacks          |->
              Cardinality({sc \in counted : IsReady(sc)}),
          stacksWithTraffic    |->
              Cardinality({sc \in counted : HasTraffic(sc)}),
          observedStackVersion |-> stackset.observedStackVersion ]

\* GenerateStackSetStatus: the counters of the Stacks that are not flagged
\* for removal, and the observed version as the StackSet's status has it.
GenerateStackSetStatus(stackset, scs) ==
    LET counted == {sc \in scs : ~sc.PendingRemoval}
    IN  [ stacks               |-> Cardinality(counted),
          readyStacks          |->
              Cardinality({sc \in counted : IsReady(sc)}),
          stacksWithTraffic    |->
              Cardinality({sc \in counted : HasTraffic(sc)}),
          observedStackVersion |-> stackset.observedStackVersion ]

----------------------------------------------------------------------------
(* pkg/core/stack_resources.go *)

wrapReplicas(n) == Ptr(n)

\* Mutant: prescaling is ignored, the Stack's own replicas are desired.
desiredReplicasOfStack(sc) == sc.stackReplicas

\* GenerateDeployment: the replicas the Stack should run.
desiredReplicas(sc) ==
    IF sc.prescalingActive THEN sc.prescalingReplicas ELSE sc.stackReplicas

\* Mutant: the replicas of a live Stack are written whatever the deployment
\* runs.
updatedReplicasOfLiveStackAlways(sc, desired) ==
    IF desired # 0 /\ ~ScaledDown(sc)
    THEN wrapReplicas(desired)
    ELSE IF sc.deploymentReplicas # 0 THEN wrapReplicas(0) ELSE Nil

\* Mutant: a live Stack is rescaled also when an autoscaler manages it.
updatedReplicasIgnoringAutoscaler(sc, desired) ==
    IF desired # 0 /\ ~ScaledDown(sc)
    THEN IF sc.deploymentReplicas = 0 \/ desired # sc.deploymentReplicas
         THEN wrapReplicas(desired)
         ELSE Nil
    ELSE IF sc.deploymentReplicas # 0 THEN wrapReplicas(0) ELSE Nil

\* Mutant: a Stack scaled down for inactivity is treated as live.
updatedReplicasIgnoringScaledDown(sc, desired) ==
    IF desired # 0
    THEN IF \/ sc.deploymentReplicas = 0
            \/ (~IsAutoscaled(sc) /\ desired # sc.deploymentReplicas)
         THEN wrapReplicas(desired)
         ELSE Nil
    ELSE IF sc.deploymentReplicas # 0 THEN wrapReplicas(0) ELSE Nil

\* GenerateDeployment: the replicas field to write, Nil to leave it unset.
updatedReplicas(sc, desired) ==
    IF desired # 0 /\ ~ScaledDown(sc)
    THEN IF \/ sc.deploymentReplicas = 0
            \/ (~IsAutoscaled(sc) /\ desired # sc.deploymentReplicas)
         THEN wrapReplicas(desired)
         ELSE Nil
    ELSE IF sc.deploymentReplicas # 0
         THEN wrapReplicas(0)
         ELSE Nil

selectorLabels == {StacksetHeritageLabelKey, StackVersionLabelKey}

mapCopy(m) == [k \in DOMAIN m |-> m[k]]

\* Mutant: every label is kept.
limitLabelsKeepingAll(labels, validKeys) == labels

limitLabels(labels, validKeys) ==
    [k \in {key \in DOMAIN labels : key \in validKeys} |-> labels[k]]

\* The labels of the pod template after the injection: a label is injected
\* only under a key the template does not have.
templateInjectLabels(templateLabels, labels) ==
    [key \in DOMAIN templateLabels \cup DOMAIN labels |->
        IF key \in DOMAIN templateLabels
        THEN templateLabels[key] ELSE labels[key]]

stackGenerationAnnotationKey == "stackset-controller.zalando.org/stack-generation"

\* strconv.FormatInt(i, 10).
FormatInt(i) == ToString(i)

\* Mutant: every object is stamped with generation 1.
resourceMetaOfFirstGeneration(sc) ==
    [ name            |-> sc.name,
      annotations     |-> stackGenerationAnnotationKey :> FormatInt(1),
      labels          |-> mapCopy(sc.labels),
      ownerReferences |-> <<[kind |-> "Stack", name |-> sc.name]>> ]

resourceMeta(sc) ==
    [ name            |-> sc.name,
      annotations     |-> stackGenerationAnnotationKey :> FormatInt(sc.generation),
      labels          |-> mapCopy(sc.labels),
      ownerReferences |-> <<[kind |-> "Stack", name |-> sc.name]>> ]

\* The Deployment GenerateDeployment returns.
GenerateDeployment(sc) ==
    resourceMeta(sc) @@
    [ replicas       |-> updatedReplicas(sc, desiredReplicas(sc)),
      selector       |-> limitLabels(sc.labels, selectorLabels),
      templateLabels |-> templateInjectLabels(sc.podTemplateLabels, sc.labels) ]

\* intstr.IntOrString: an integer or a string, and its String().
FromInt(val) == [type |-> "Int", intVal |-> val, strVal |-> ""]
FromString(val) == [type |-> "String", intVal |-> 0, strVal |-> val]
IntOrStringString(intstr) ==
    IF intstr.type = "String" THEN intstr.strVal ELSE ToString(intstr.intVal)

\* The ports of container i (counted from 0) as service ports.
RECURSIVE servicePortsFromContainer(_, _, _)
servicePortsFromContainer(i, ports, j) ==
    IF j >= Len(ports) THEN <<>>
    ELSE LET port == ports[j + 1]
         IN  <<[ name       |-> IF port.name # "" THEN port.name
                                ELSE "port-" \o ToString(i) \o "-" \o ToString(j),
                 protocol   |-> IF port.protocol = "" THEN "TCP"
                                ELSE port.protocol,
                 port       |-> port.containerPort,
                 targetPort |-> FromInt(port.containerPort) ]>>
             \o servicePortsFromContainer(i, ports, j + 1)

RECURSIVE servicePortsFromContainersAt(_, _)
servicePortsFromContainersAt(containers, i) ==
    IF i >= Len(containers) THEN <<>>
    ELSE servicePortsFromContainer(i, containers[i + 1].ports, 0)
            \o servicePortsFromContainersAt(containers, i + 1)

servicePortsFromContainers(containers) ==
    servicePortsFromContainersAt(containers, 0)

\* Mutant: a string backend port is not compared with the port names.
portMatchesByNumber(port, backendPort) ==
    backendPort.type = "Int" /\ port.port = backendPort.intVal

\* The switch of getServicePorts on the type of the backend port.
portMatches(port, backendPort) ==
    \/ backendPort.type = "Int" /\ port.port = backendPort.intVal
    \/ backendPort.type = "String" /\ port.name = backendPort.strVal

\* stackSpec is the Stack's service spec (nil, or its ports) and the
\* containers of its pod template; backendPort may be nil.
getServicePorts(stackSpec, backendPort) ==
    LET servicePorts ==
            IF stackSpec.service = Nil \/ Len(Deref(stackSpec.service)) = 0
            THEN servicePortsFromContainers(stackSpec.containers)
            ELSE Deref(stackSpec.service)
    IN  IF backendPort # Nil
        THEN IF \E n \in DOMAIN servicePorts :
                   portMatches(servicePorts[n], Deref(backendPort))
             THEN [ports |-> Ptr(servicePorts), err |-> Nil]
             ELSE [ports |-> Nil,
                   err |-> Ptr("no service ports matching backendPort '"
                               \o IntOrStringString(Deref(backendPort)) \o "'")]
        ELSE [ports |-> Ptr(servicePorts), err |-> Nil]

\* The Service and the error GenerateService returns.
GenerateService(sc) ==
    LET backendPort == IF sc.ingressSpec # Nil
                       THEN Ptr(Deref(sc.ingressSpec).backendPort)
                       ELSE Nil
        got == getServicePorts([service |-> sc.service,
                                containers |-> sc.containers], backendPort)
    IN  IF got.err # Nil
        THEN [service |-> Nil, err |-> got.err]
        ELSE [service |-> Ptr(resourceMeta(sc) @@
                              [ selector |-> limitLabels(sc.labels, selectorLabels),
                                type     |-> "ClusterIP",
                                clusterIP |-> "",
                                ports    |-> Deref(got.ports) ]),
              err |-> Nil]

\* convertCustomMetrics: the metrics of an Autoscaler translate to HPA
\* metrics, or the translation fails.
convertCustomMetrics(metrics) ==
    IF metrics = "untranslatable"
    THEN [metrics |-> Nil, err |-> Ptr("custom-metric-translation")]
    ELSE [metrics |-> Ptr(metrics), err |-> Nil]

\* Mutant: while prescaling, minReplicas is always set to prescalingReplicas.
prescaledMinReplicasAlways(sc, minReplicas) ==
    IF sc.prescalingActive THEN Ptr(sc.prescalingReplicas) ELSE minReplicas

\* Mutant: minReplicas is raised to prescalingReplicas also after prescaling
\* has ended.
prescaledMinReplicasAfterPrescaling(sc, minReplicas) ==
    IF minReplicas = Nil \/ Deref(minReplicas) < sc.prescalingReplicas
    THEN Ptr(sc.prescalingReplicas)
    ELSE minReplicas

\* GenerateHPA: if prescaling is enabled, ensure at least prescalingReplicas.
prescaledMinReplicas(sc, minReplicas) ==
    IF /\ sc.prescalingActive
       /\ (minReplicas = Nil \/ Deref(minReplicas) < sc.prescalingReplicas)
    THEN Ptr(sc.prescalingReplicas)
    ELSE minReplicas

\* The HorizontalPodAutoscaler and the error GenerateHPA returns.
GenerateHPA(sc) ==
    LET autoscalerSpec == sc.autoscaler
        hpaSpec == sc.horizontalPodAutoscaler
    IN  IF autoscalerSpec = Nil /\ hpaSpec = Nil
        THEN [hpa |-> Nil, err |-> Nil]
        ELSE IF autoscalerSpec # Nil
        THEN LET converted == convertCustomMetrics(Deref(autoscalerSpec).metrics)
             IN  IF converted.err # Nil
                 THEN [hpa |-> Nil, err |-> converted.err]
                 ELSE [hpa |-> Ptr(resourceMeta(sc) @@
                                   [ minReplicas |-> prescaledMinReplicas(sc,
                                                       Deref(autoscalerSpec).minReplicas),
                                     maxReplicas |-> Deref(autoscalerSpec).maxReplicas,
                                     metrics     |-> Deref(converted.metrics) ]),
                       err |-> Nil]
        ELSE [hpa |-> Ptr(resourceMeta(sc) @@
                          [ minReplicas |-> prescaledMinReplicas(sc,
                                              Deref(hpaSpec).minReplicas),
                            maxReplicas |-> Deref(hpaSpec).maxReplicas,
                            metrics     |-> Deref(hpaSpec).metrics ]),
              err |-> Nil]

\* The host of the per-Stack ingress: the name of the Stack put in front of
\* the host of the StackSet's ingress.
createSubdomain(domain, subdomain) ==
    [host |-> subdomain \o "." \o domain, err |-> Nil]

\* StackContainer.GenerateIngress: the ingress of one Stack and the error,
\* one rule per host with the single path to the Stack's service.
StackContainerGenerateIngress(sc) ==
    IF sc.ingressSpec = Nil
    THEN [ingress |-> Nil, err |-> Nil]
    ELSE LET ingressSpec == Deref(sc.ingressSpec)
             path == [ path        |-> ingressSpec.path,
                       serviceName |-> sc.name,
                       servicePort |-> ingressSpec.backendPort ]
             meta == resourceMeta(sc)
         IN  [ingress |->
                 Ptr([meta EXCEPT !.annotations =
                         mergeLabels(<<meta.annotations,
                                       ingressSpec.annotations>>)]
                     @@ [rules |->
                            [h \in DOMAIN ingressSpec.hosts |->
                                [host  |-> createSubdomain(ingressSpec.hosts[h],
                                                           sc.name).host,
                                 paths |-> <<path>>]]]),
              err |-> Nil]

----------------------------------------------------------------------------
(* The reconciliation loop around the core (ReconcileStackSet): one       *)
(* reconciliation of the StackSet is in flight at a time, and the user    *)
(* and the clock act between reconciliations.                             *)

IngressSpec ==
    [ path        |-> "/",
      backendPort |-> FromInt(80),
      hosts       |-> <<"foo.example.org">>,
      annotations |-> NoLabels ]

\* UpdateFromResources: the observed fields of a Stack read from the cluster.
effectiveReplicas(replicas) ==
    IF replicas = Nil THEN 1 ELSE Deref(replicas)

Observed(stackset, stack) ==
    [stack EXCEPT !.creationTimestamp = now,
                  !.generation = 1,
                  !.stackReplicas = effectiveReplicas(stack.replicas),
                  !.ingressSpec = stackset.ingress,
                  !.scaledownTTL = ScaledownTTL]

Init ==
    /\ StackSet \in [ name                 : {StackSetName},
                      version              : Versions,
                      observedStackVersion : {""},
                      limit                : {Nil} \cup {Ptr(n) : n \in 0..MaxLimit},
                      ingress              : {Nil, Ptr(IngressSpec)},
                      replicas             : {Ptr(1)},
                      autoscaled           : {FALSE},
                      uid                  : {StackSetUID},
                      labels               : {NoLabels},
                      podTemplateLabels    : {NoLabels} ]
    /\ StackContainers = {}
    /\ now = 1
    /\ pc = "idle"
    /\ input = {}
    /\ newStack = [stack |-> Nil, version |-> ""]
    /\ deployment = Nil
    /\ NothingGenerated

\* The user edits stackTemplate.version.
UpdateTemplateVersion ==
    /\ pc = "idle"
    /\ \E v \in Versions \ {StackSet.version} :
          StackSet' = [StackSet EXCEPT !.version = v]
    /\ UNCHANGED <<StackContainers, now, pc, input, newStack, deployment, generated, cluster, previous, created>>

\* The user deletes a Stack.
DeleteStack ==
    /\ pc = "idle"
    /\ \E sc \in StackContainers : StackContainers' = StackContainers \ {sc}
    /\ UNCHANGED <<StackSet, now, pc, input, newStack, deployment, generated, cluster, previous, created>>

\* The user directs all traffic to one Stack (the desired weights on the ingress).
SetDesiredTraffic ==
    /\ pc = "idle"
    /\ StackSet.ingress # Nil
    /\ \E target \in StackContainers :
          /\ target.desiredTrafficWeight = 0
          /\ StackContainers' =
                {[sc EXCEPT !.desiredTrafficWeight =
                                IF sc.name = target.name THEN 100 ELSE 0] :
                    sc \in StackContainers}
    /\ UNCHANGED <<StackSet, now, pc, input, newStack, deployment, generated, cluster, previous, created>>

Tick ==
    /\ pc = "idle"
    /\ now < MaxTime
    /\ now' = now + 1
    /\ UNCHANGED <<StackSet, StackContainers, pc, input, newStack, deployment, generated, cluster, previous, created>>

\* Container assembly: the working set is built afresh from the cluster, so
\* no Stack is flagged.
StartReconcile ==
    /\ pc = "idle"
    /\ StackContainers' =
          {[sc EXCEPT !.PendingRemoval = FALSE] : sc \in StackContainers}
    /\ input' = Names(StackContainers)
    /\ newStack' = [stack |-> Nil, version |-> ""]
    /\ pc' = "new"
    /\ UNCHANGED <<StackSet, now, deployment, generated, cluster, previous, created>>

NewStackStep ==
    /\ pc = "new"
    /\ newStack' = NewStack(StackSet, StackContainers)
    /\ StackSet' = StackSetAfterNewStack(StackSet, StackContainers)
    /\ pc' = "create"
    /\ UNCHANGED <<StackContainers, now, input, deployment, generated, cluster, previous, created>>

\* CreateCurrentStack: nothing to create.
NoStackToCreate ==
    /\ pc = "create"
    /\ newStack.stack = Nil
    /\ pc' = "traffic"
    /\ UNCHANGED <<StackSet, StackContainers, now, input, newStack, deployment, generated, cluster, previous, created>>

\* CreateCurrentStack: the emitted Stack is persisted and joins the working set.
CreateStack ==
    /\ pc = "create"
    /\ newStack.stack # Nil
    /\ StackContainers' =
          StackContainers \cup {Observed(StackSet, Deref(newStack.stack))}
    /\ pc' = "status"
    /\ UNCHANGED <<StackSet, now, input, newStack, deployment, generated, cluster, previous, created>>

\* CreateCurrentStack: after the create, observedStackVersion is bumped.
UpdateObservedVersion ==
    /\ pc = "status"
    /\ StackSet' = [StackSet EXCEPT !.observedStackVersion = newStack.version]
    /\ pc' = "traffic"
    /\ UNCHANGED <<StackContainers, now, input, newStack, deployment, generated, cluster, previous, created>>

\* ManageTraffic: actual weights follow the desired ones or are held for this
\* tick; noTrafficSince is set while a Stack serves nothing and cleared when
\* traffic returns.
ManageTraffic ==
    /\ pc = "traffic"
    /\ \E advance \in BOOLEAN :
          StackContainers' =
             {LET actual == IF advance /\ sc.ingressSpec # Nil
                            THEN sc.desiredTrafficWeight
                            ELSE sc.actualTrafficWeight
              IN  [sc EXCEPT !.actualTrafficWeight = actual,
                             !.noTrafficSince =
                                 IF actual > 0 THEN 0
                                 ELSE IF sc.noTrafficSince = 0 THEN now
                                 ELSE sc.noTrafficSince] :
                 sc \in StackContainers}
    /\ pc' = "mark"
    /\ UNCHANGED <<StackSet, now, input, newStack, deployment, generated, cluster, previous, created>>

MarkExpiredStacksStep ==
    /\ pc = "mark"
    /\ \E expired \in ExpiredStacks(StackSet, StackContainers) :
          StackContainers' = MarkExpiredStacks(StackContainers, expired)
    /\ pc' = "cleanup"
    /\ UNCHANGED <<StackSet, now, input, newStack, deployment, generated, cluster, previous, created>>

\* CleanupOldStacks: the external deleter removes the flagged Stacks; the
\* working set is destroyed at the end of the reconciliation.
CleanupOldStacks ==
    /\ pc = "cleanup"
    /\ StackContainers' = {sc \in StackContainers : ~sc.PendingRemoval}
    /\ input' = {}
    /\ newStack' = [stack |-> Nil, version |-> ""]
    /\ pc' = "idle"
    /\ UNCHANGED <<StackSet, now, deployment, generated, cluster, previous, created>>

Next ==
    \/ UpdateTemplateVersion
    \/ DeleteStack
    \/ SetDesiredTraffic
    \/ Tick
    \/ StartReconcile
    \/ NewStackStep
    \/ NoStackToCreate
    \/ CreateStack
    \/ UpdateObservedVersion
    \/ ManageTraffic
    \/ MarkExpiredStacksStep
    \/ CleanupOldStacks

Spec == Init /\ [][Next]_vars

----------------------------------------------------------------------------
(* GenerateDeployment as a function of one StackContainer: Init draws the *)
(* container and the clock from bounded sets.                             *)

InputContainers ==
    [ name                 : {"foo-v1"},
      version              : {"v1"},
      ownerReferences      : {<<[kind |-> "StackSet", name |-> StackSetName,
                                 uid |-> StackSetUID]>>},
      labels               : {StackLabels(StackSetName, "v1")},
      podTemplateLabels    : {NoLabels},
      creationTimestamp    : {1},
      replicas             : {Nil},
      stackReplicas        : 0..MaxReplicas,
      autoscaled           : BOOLEAN,
      ingressSpec          : {Nil, Ptr(IngressSpec)},
      scaledownTTL         : {ScaledownTTL},
      actualTrafficWeight  : Weights,
      desiredTrafficWeight : Weights,
      noTrafficSince       : 0..MaxTime,
      deploymentReplicas   : 0..MaxReplicas,
      prescalingActive     : BOOLEAN,
      prescalingReplicas   : 0..MaxReplicas,
      PendingRemoval       : {FALSE},
      generation           : {1} ]

InitDeployment ==
    /\ StackSet = [ name                 |-> StackSetName,
                    version              |-> "v1",
                    observedStackVersion |-> "v1",
                    limit                |-> Nil,
                    ingress              |-> Ptr(IngressSpec),
                    replicas             |-> Nil,
                    autoscaled           |-> FALSE,
                    uid                  |-> StackSetUID,
                    labels               |-> NoLabels,
                    podTemplateLabels    |-> NoLabels ]
    /\ now \in 1..MaxTime
    /\ \E sc \in InputContainers :
          \* a Stack without ingress has no traffic, and nothing lost traffic
          \* in the future
          /\ sc.ingressSpec = Nil =>
                sc.actualTrafficWeight = 0 /\ sc.desiredTrafficWeight = 0
          /\ sc.noTrafficSince <= now
          /\ StackContainers = {sc}
    /\ pc = "generate"
    /\ input = {}
    /\ newStack = [stack |-> Nil, version |-> ""]
    /\ deployment = Nil
    /\ NothingGenerated

GenerateDeploymentStep ==
    /\ pc \in {"generate", "routed"}
    /\ \E sc \in StackContainers : deployment' = Ptr(GenerateDeployment(sc))
    /\ pc' = "generated"
    /\ UNCHANGED <<StackSet, StackContainers, now, input, newStack, generated, cluster, previous, created>>

NextDeployment == GenerateDeploymentStep

SpecDeployment == InitDeployment /\ [][NextDeployment]_vars

----------------------------------------------------------------------------
(* MarkExpiredStacks as a function of the working set: Init draws a       *)
(* working set of up to MaxStacks Stacks, enough to exceed the default    *)
(* limit, and the StackSet's limit.                                       *)

\* Stack number i of such a working set: it serves traffic, or it lost its
\* traffic at time 1.
RetentionStack(stackset, i, paired, serving) ==
    [ name                 |-> generateStackName(stackset, "v" \o ToString(i)),
      version              |-> "v" \o ToString(i),
      ownerReferences      |-> OwnerReferences(stackset),
      labels               |-> StackLabels(stackset.name, "v" \o ToString(i)),
      podTemplateLabels    |-> stackset.podTemplateLabels,
      creationTimestamp    |-> IF paired THEN (i + 1) \div 2 ELSE i,
      replicas             |-> stackset.replicas,
      stackReplicas        |-> effectiveReplicas(stackset.replicas),
      autoscaled           |-> stackset.autoscaled,
      ingressSpec          |-> stackset.ingress,
      scaledownTTL         |-> ScaledownTTL,
      actualTrafficWeight  |-> IF serving THEN 100 ELSE 0,
      desiredTrafficWeight |-> IF serving THEN 100 ELSE 0,
      noTrafficSince       |-> IF serving THEN 0 ELSE 1,
      deploymentReplicas   |-> 0,
      prescalingActive     |-> FALSE,
      prescalingReplicas   |-> 0,
      PendingRemoval       |-> FALSE,
      generation           |-> 1 ]

InitRetention ==
    /\ StackSet \in [ name                 : {StackSetName},
                      version              : {"v1"},
                      observedStackVersion : {"v1"},
                      limit                : {Nil} \cup {Ptr(n) : n \in 0..MaxLimit},
                      ingress              : {Nil, Ptr(IngressSpec)},
                      replicas             : {Ptr(1)},
                      autoscaled           : {FALSE},
                      uid                  : {StackSetUID},
                      labels               : {NoLabels},
                      podTemplateLabels    : {NoLabels} ]
    /\ now = 1 + ScaledownTTL
    /\ \E n \in 0..MaxStacks : \E paired \in BOOLEAN : \E serving \in SUBSET (1..n) :
          /\ StackSet.ingress = Nil => serving = {}
          /\ StackContainers =
                {RetentionStack(StackSet, i, paired, i \in serving) : i \in 1..n}
    /\ pc = "mark"
    /\ input = Names(StackContainers)
    /\ newStack = [stack |-> Nil, version |-> ""]
    /\ deployment = Nil
    /\ NothingGenerated

NextRetention == MarkExpiredStacksStep

SpecRetention == InitRetention /\ [][NextRetention]_vars

----------------------------------------------------------------------------
(* Properties of the lifecycle decider, checked under Spec *)

\* What the properties read off a state, written from the claims.
TemplateVersion == IF StackSet.version = "" THEN "01" ELSE StackSet.version
TemplateStackName == "foo-" \o TemplateVersion
RetentionLimit == IF StackSet.limit = Nil THEN 10 ELSE StackSet.limit[1]
Serving(sc) == sc.actualTrafficWeight > 0 \/ sc.desiredTrafficWeight > 0
Idle(sc) ==
    /\ ~Serving(sc)
    /\ sc.noTrafficSince # 0
    /\ now - sc.noTrafficSince >= ScaledownTTL
Candidates == {sc \in StackContainers : sc.ingressSpec = Nil \/ Idle(sc)}
Flagged == {sc \in StackContainers : sc.PendingRemoval}
Emitted == newStack.stack # Nil
Max(a, b) == IF a > b THEN a ELSE b
Min(a, b) == IF a < b THEN a ELSE b

\* C1: NewStack returns a new Stack, named <stacksetName>-<currentVersion>, if
\* and only if no Stack of that name is in the working set and
\* status.observedStackVersion differs from currentVersion (the template
\* version, or "01" when it is empty); otherwise it returns no Stack.
C1_NewStackIffAbsentAndUnobserved ==
    pc = "create" =>
        /\ Emitted <=>
              /\ \A sc \in StackContainers : sc.name # TemplateStackName
              /\ StackSet.observedStackVersion # TemplateVersion
        /\ Emitted =>
              /\ Deref(newStack.stack).name = TemplateStackName
              /\ newStack.version = TemplateVersion
        /\ ~Emitted => newStack.version = ""

\* NewStack has emitted the Stack of an empty template version.
C1_Witness ==
    /\ pc = "create"
    /\ Emitted
    /\ StackSet.version = ""
    /\ StackContainers # {}

\* C2: while the template version stays v, once status.observedStackVersion
\* is v it stays v and no call of NewStack emits a Stack, also when the Stack
\* of v is no longer in the working set.
C2_ObservedVersionIsConsumed ==
    [][ (/\ StackSet.observedStackVersion = TemplateVersion
         /\ StackSet'.version = StackSet.version)
        => /\ StackSet'.observedStackVersion = StackSet.observedStackVersion
           /\ ~(pc = "new" /\ pc' = "create" /\ newStack'.stack # Nil) ]_vars

\* NewStack has run for an observed version whose Stack was deleted, and has
\* emitted nothing.
C2_Witness ==
    /\ pc = "create"
    /\ ~Emitted
    /\ StackSet.observedStackVersion = TemplateVersion
    /\ \A sc \in StackContainers : sc.name # TemplateStackName

\* C3: the Stacks of the working set after NewStack, the writer and
\* MarkExpiredStacks are the input Stacks, plus the one Stack NewStack emitted
\* if it emitted one; MarkExpiredStacks changes nothing but PendingRemoval
\* flags and removes no Stack.
C3_StacksAreInputPlusAtMostOne ==
    [][ (pc = "mark" /\ pc' = "cleanup")
        => /\ {[sc EXCEPT !.PendingRemoval = FALSE] : sc \in StackContainers'}
                 = StackContainers
           /\ Cardinality(StackContainers') = Cardinality(StackContainers)
           /\ Names(StackContainers') =
                 input \cup (IF Emitted THEN {TemplateStackName} ELSE {})
           /\ Emitted => TemplateStackName \notin input ]_vars

\* A reconciliation has emitted a Stack and flagged one.
C3_Witness ==
    /\ pc = "cleanup"
    /\ Emitted
    /\ Flagged # {}
    /\ Cardinality(StackContainers) = Cardinality(input) + 1

\* C4: MarkExpiredStacks flags exactly max(0, |candidates| - limit) Stacks
\* (limit 10 when unset), and no flagged candidate is created later than an
\* unflagged candidate.
C4_MarksOldestExcessCandidates ==
    pc = "cleanup" =>
        /\ Cardinality(Flagged) =
              Max(0, Cardinality(Candidates) - RetentionLimit)
        /\ \A m \in Flagged : \A u \in Candidates \ Flagged :
              m.creationTimestamp <= u.creationTimestamp

\* With the limit unset, more than ten candidates: the oldest are flagged,
\* among them one of two created together, and ten are kept.
C4_Witness ==
    /\ pc = "cleanup"
    /\ StackSet.limit = Nil
    /\ Cardinality(Candidates \ Flagged) = 10
    /\ \E m \in Flagged : \E u \in Candidates \ Flagged :
          m.creationTimestamp = u.creationTimestamp
    /\ \E sc \in StackContainers : sc \notin Candidates

\* C5: every Stack flagged PendingRemoval has no ingressSpec or is ScaledDown;
\* a Stack outside the candidates is never flagged, whatever its age.
C5_OnlyCandidatesAreMarked ==
    \A sc \in StackContainers :
        sc.PendingRemoval => (sc.ingressSpec = Nil \/ Idle(sc))

\* A scaled-down Stack with an ingress is flagged while an older Stack that is
\* no candidate is kept.
C5_Witness ==
    /\ pc = "cleanup"
    /\ \E m \in Flagged : \E u \in StackContainers \ Candidates :
          /\ m.ingressSpec # Nil
          /\ u.creationTimestamp < m.creationTimestamp

\* C6: a Stack with traffic (actual or desired weight above 0) is not flagged
\* PendingRemoval.
C6_TrafficIsNeverMarked ==
    \A sc \in StackContainers : Serving(sc) => ~sc.PendingRemoval

\* MarkExpiredStacks has flagged a Stack while another one has traffic.
C6_Witness ==
    /\ pc = "cleanup"
    /\ Flagged # {}
    /\ \E sc \in StackContainers : Serving(sc)

\* C7: after MarkExpiredStacks at least min(limit, |input|) - 1 Stacks are
\* not flagged PendingRemoval.
C7_RetainedAtLeastLimit ==
    pc = "cleanup" =>
        Cardinality(StackContainers \ Flagged) >=
            Min(RetentionLimit, Cardinality(input)) - 1

\* More input Stacks than the limit, and some Stack is flagged.
C7_Witness ==
    /\ pc = "cleanup"
    /\ Flagged # {}
    /\ RetentionLimit >= 1
    /\ Cardinality(input) > RetentionLimit

----------------------------------------------------------------------------
(* Properties of the replica planner, checked under SpecDeployment *)

Desired(sc) ==
    IF sc.prescalingActive THEN sc.prescalingReplicas ELSE sc.stackReplicas
Live(sc) == Desired(sc) # 0 /\ ~Idle(sc)
Written == Deref(deployment).replicas

\* C8: for a live Stack (desired replicas not 0, not ScaledDown) that is
\* autoscaled and whose deployment runs a non-zero replica count,
\* GenerateDeployment leaves the replicas field unset.
C8_AutoscaledReplicasNotOverwritten ==
    pc = "generated" =>
        \A sc \in StackContainers :
            (Live(sc) /\ sc.autoscaled /\ sc.deploymentReplicas # 0)
                => Written = Nil

\* A live autoscaled Stack runs a replica count other than the desired one,
\* and GenerateDeployment has left replicas unset.
C8_Witness ==
    /\ pc = "generated"
    /\ \E sc \in StackContainers :
          /\ Live(sc) /\ sc.autoscaled
          /\ sc.deploymentReplicas # 0
          /\ sc.deploymentReplicas # Desired(sc)
          /\ sc.prescalingActive
    /\ Written = Nil

\* C9: when the desired replicas are 0 or the Stack is ScaledDown,
\* GenerateDeployment writes replicas 0 if deploymentReplicas is not 0 and
\* leaves replicas unset if it is 0, autoscaled or not, prescaling or not.
C9_ZeroedWhenScaledDown ==
    pc = "generated" =>
        \A sc \in StackContainers :
            ~Live(sc) =>
                Written = IF sc.deploymentReplicas # 0 THEN <<0>> ELSE Nil

\* A ScaledDown Stack that is autoscaled and prescaling, with replicas
\* desired and running, has its replicas written to 0.
C9_Witness ==
    /\ pc = "generated"
    /\ \E sc \in StackContainers :
          /\ Idle(sc) /\ Desired(sc) # 0
          /\ sc.autoscaled /\ sc.prescalingActive
          /\ sc.deploymentReplicas # 0
    /\ Written = <<0>>

\* C10: for a live Stack, with desired = prescalingReplicas if
\* prescalingActive else stackReplicas, GenerateDeployment writes desired if
\* deploymentReplicas is 0, writes desired if the Stack is not autoscaled and
\* desired differs from deploymentReplicas, and leaves replicas unset
\* otherwise.
C10_LiveReplicasDecision ==
    pc = "generated" =>
        \A sc \in StackContainers :
            Live(sc) =>
                Written =
                    IF sc.deploymentReplicas = 0 THEN <<Desired(sc)>>
                    ELSE IF ~sc.autoscaled /\ Desired(sc) # sc.deploymentReplicas
                         THEN <<Desired(sc)>>
                    ELSE Nil

\* A prescaling autoscaled Stack at 0 replicas is written to its prescaling
\* replicas, which differ from the Stack's own.
C10_Witness ==
    /\ pc = "generated"
    /\ \E sc \in StackContainers :
          /\ Live(sc) /\ sc.autoscaled /\ sc.prescalingActive
          /\ sc.deploymentReplicas = 0
          /\ sc.prescalingReplicas # sc.stackReplicas
          /\ Written = <<sc.prescalingReplicas>>

----------------------------------------------------------------------------
(* GenerateHPA as a function of one StackContainer *)

OptionalReplicas == {Nil} \cup {Ptr(n) : n \in 0..MaxReplicas}

\* A Stack that serves all traffic; the generators' inputs extend it.
BaseContainer ==
    [ name                 |-> "foo-v1",
      version              |-> "v1",
      ownerReferences      |-> <<[kind |-> "StackSet", name |-> StackSetName,
                                  uid |-> StackSetUID]>>,
      labels               |-> StackLabels(StackSetName, "v1"),
      podTemplateLabels    |-> NoLabels,
      creationTimestamp    |-> 1,
      replicas             |-> Nil,
      stackReplicas        |-> 1,
      autoscaled           |-> FALSE,
      ingressSpec          |-> Ptr(IngressSpec),
      scaledownTTL         |-> ScaledownTTL,
      actualTrafficWeight  |-> 100,
      desiredTrafficWeight |-> 100,
      noTrafficSince       |-> 0,
      deploymentReplicas   |-> 1,
      prescalingActive     |-> FALSE,
      prescalingReplicas   |-> 0,
      PendingRemoval       |-> FALSE,
      generation           |-> 1 ]

BaseStackSet ==
    [ name                 |-> StackSetName,
      version              |-> "v1",
      observedStackVersion |-> "v1",
      limit                |-> Nil,
      ingress              |-> Ptr(IngressSpec),
      replicas             |-> Nil,
      autoscaled           |-> FALSE,
      uid                  |-> StackSetUID,
      labels               |-> NoLabels,
      podTemplateLabels    |-> NoLabels ]

AutoscalerSpecs ==
    [ minReplicas : OptionalReplicas,
      maxReplicas : {MaxReplicas + 1},
      metrics     : {"cpu", "untranslatable"} ]

HPASpecs ==
    [ minReplicas : OptionalReplicas,
      maxReplicas : {MaxReplicas + 2},
      metrics     : {"memory"} ]

InitHPA ==
    /\ StackSet = BaseStackSet
    /\ now = 1
    /\ \E autoscaler \in {Nil} \cup {Ptr(a) : a \in AutoscalerSpecs} :
       \E horizontalPodAutoscaler \in {Nil} \cup {Ptr(h) : h \in HPASpecs} :
       \E active \in BOOLEAN : \E prescaling \in 0..MaxReplicas :
          StackContainers =
             {[BaseContainer EXCEPT
                  !.autoscaled = autoscaler # Nil \/ horizontalPodAutoscaler # Nil,
                  !.prescalingActive = active,
                  !.prescalingReplicas = prescaling]
              @@ [autoscaler |-> autoscaler,
                  horizontalPodAutoscaler |-> horizontalPodAutoscaler]}
    /\ pc = "generate"
    /\ input = {}
    /\ newStack = [stack |-> Nil, version |-> ""]
    /\ deployment = Nil
    /\ NothingGenerated

GenerateHPAStep ==
    /\ pc = "generate"
    /\ \E sc \in StackContainers :
          /\ hpa' = GenerateHPA(sc).hpa
          /\ err' = GenerateHPA(sc).err
    /\ pc' = "generated"
    /\ UNCHANGED <<StackSet, StackContainers, now, input, newStack, deployment,
                   service, ingress, status, cluster, previous, created>>

NextHPA == GenerateHPAStep

SpecHPA == InitHPA /\ [][NextHPA]_vars

\* The autoscaling spec GenerateHPA builds the HPA from: the Autoscaler if the
\* Stack has one, else the HorizontalPodAutoscaler.
SpecMinReplicas(sc) ==
    IF sc.autoscaler # Nil THEN sc.autoscaler[1].minReplicas
    ELSE sc.horizontalPodAutoscaler[1].minReplicas

\* C11: the generated HPA's minReplicas is prescalingReplicas when
\* prescalingActive and the spec's minReplicas is unset or below
\* prescalingReplicas; in every other case it is the spec's minReplicas
\* unchanged (unset stays unset, a value >= prescalingReplicas is kept).
C11_MinReplicasClamp ==
    (pc = "generated" /\ hpa # Nil) =>
        \A sc \in StackContainers :
            hpa[1].minReplicas =
                IF /\ sc.prescalingActive
                   /\ \/ SpecMinReplicas(sc) = Nil
                      \/ SpecMinReplicas(sc)[1] < sc.prescalingReplicas
                THEN <<sc.prescalingReplicas>>
                ELSE SpecMinReplicas(sc)

\* A prescaling Stack whose spec asks for more than prescalingReplicas keeps
\* its own minReplicas.
C11_Witness ==
    /\ pc = "generated"
    /\ hpa # Nil
    /\ \E sc \in StackContainers :
          /\ sc.prescalingActive
          /\ sc.autoscaler = Nil
          /\ SpecMinReplicas(sc) # Nil
          /\ SpecMinReplicas(sc)[1] > sc.prescalingReplicas
          /\ hpa[1].minReplicas = SpecMinReplicas(sc)

----------------------------------------------------------------------------
(* The traffic reconciler (ManageTraffic): normalization of the desired   *)
(* weights, prescaling and the advancement of the actual weights.         *)

RECURSIVE SumDesired(_)
SumDesired(scs) ==
    IF scs = {} THEN 0
    ELSE LET sc == CHOOSE x \in scs : TRUE
         IN  sc.desiredTrafficWeight + SumDesired(scs \ {sc})

RECURSIVE SumReady(_)
SumReady(scs) ==
    IF scs = {} THEN 0
    ELSE LET sc == CHOOSE x \in scs : TRUE
         IN  sc.readyReplicas + SumReady(scs \ {sc})

\* The Stacks traffic can be assigned to.
TrafficEligible(scs) ==
    {sc \in scs : ~sc.PendingRemoval /\ sc.ingressSpec # Nil}

\* The most recently created of them.
FallbackStacks(scs) ==
    {sc \in TrafficEligible(scs) :
        \A other \in TrafficEligible(scs) :
            other.creationTimestamp <= sc.creationTimestamp}

\* Mutant: the weights are normalized over every Stack with an ingress,
\* flagged for removal or not.
normalizeWeightsOverFlagged(scs, fallback) ==
    LET all == {sc \in scs : sc.ingressSpec # Nil}
        sum == SumDesired(all)
    IN  {IF sc \notin all THEN sc
         ELSE IF sum = 0
              THEN [sc EXCEPT !.desiredTrafficWeight =
                                  IF sc.name = fallback THEN 100 ELSE 0]
              ELSE [sc EXCEPT !.desiredTrafficWeight = (@ * 100) \div sum] :
            sc \in scs}

\* The desired weights, renormalized to sum to 100 over the eligible Stacks;
\* the fallback Stack receives 100 when they sum to 0.
normalizeWeights(scs, fallback) ==
    LET eligible == TrafficEligible(scs)
        sum == SumDesired(eligible)
    IN  {IF sc \notin eligible THEN sc
         ELSE IF sum = 0
              THEN [sc EXCEPT !.desiredTrafficWeight =
                                  IF sc.name = fallback THEN 100 ELSE 0]
              ELSE [sc EXCEPT !.desiredTrafficWeight = (@ * 100) \div sum] :
            sc \in scs}

\* Prescaling: a Stack whose desired weight rose above its actual weight is
\* prescaled to the ready replicas of the Stacks that serve traffic; prescaling
\* ends when the desired weight is 0, or when the weight was held for
\* scaledownTTL.
Prescale(scs) ==
    LET target == SumReady({sc \in scs : sc.actualTrafficWeight > 0})
    IN  {IF sc \notin TrafficEligible(scs) THEN sc
         ELSE IF sc.desiredTrafficWeight = 0
              THEN [sc EXCEPT !.prescalingActive = FALSE,
                              !.prescalingReplicas = 0,
                              !.prescalingDesiredTrafficWeight = 0,
                              !.prescalingLastTrafficIncrease = 0]
         ELSE IF /\ ~sc.prescalingActive
                 /\ sc.desiredTrafficWeight > sc.actualTrafficWeight
                 /\ target > 0
              THEN [sc EXCEPT !.prescalingActive = TRUE,
                              !.prescalingReplicas = target,
                              !.prescalingDesiredTrafficWeight =
                                   sc.desiredTrafficWeight,
                              !.prescalingLastTrafficIncrease = now]
         ELSE IF /\ sc.prescalingActive
                 /\ sc.desiredTrafficWeight = sc.actualTrafficWeight
                 /\ now - sc.prescalingLastTrafficIncrease >= sc.scaledownTTL
              THEN [sc EXCEPT !.prescalingActive = FALSE,
                              !.prescalingReplicas = 0,
                              !.prescalingDesiredTrafficWeight = 0,
                              !.prescalingLastTrafficIncrease = 0]
         ELSE sc :
            sc \in scs}

\* Mutant: only a prescaling Stack that is to gain traffic holds the weights.
PrescalingHoldOfGainers(scs) ==
    \E sc \in TrafficEligible(scs) :
        /\ sc.prescalingActive
        /\ sc.readyReplicas < sc.prescalingReplicas
        /\ sc.desiredTrafficWeight > sc.actualTrafficWeight

\* The hold: a prescaling Stack has not reached its prescaling replicas.
PrescalingHold(scs) ==
    \E sc \in TrafficEligible(scs) :
        /\ sc.prescalingActive
        /\ sc.readyReplicas < sc.prescalingReplicas

\* The actual weights move to the desired ones unless held.
AdvanceTraffic(scs) ==
    IF PrescalingHold(scs) THEN scs
    ELSE {IF sc \notin TrafficEligible(scs) THEN sc
          ELSE [sc EXCEPT !.actualTrafficWeight = sc.desiredTrafficWeight,
                          !.noTrafficSince =
                              IF sc.desiredTrafficWeight > 0 THEN 0
                              ELSE IF @ = 0 THEN now ELSE @] :
             sc \in scs}

(* One pass of the traffic reconciler over a working set of three Stacks, *)
(* drawn by Init with the traffic the user asked for, the traffic the     *)
(* Stacks serve, their ready replicas and their prescaling state.         *)

TrafficVersions == {"01", "v1", "v2"}

\* "v1" is the most recently created of the three.
TrafficCreated == [v \in TrafficVersions |->
                      IF v = "01" THEN 2 ELSE IF v = "v1" THEN 3 ELSE 1]

RequestedWeights == {0, 50, 100}

\* The actual weights of a working set: nobody serves, one Stack serves
\* everything, or two Stacks serve half each.
ServedWeights ==
    {w \in [TrafficVersions -> {0, 50, 100}] :
        \/ \A v \in TrafficVersions : w[v] = 0
        \/ \E v \in TrafficVersions :
              w[v] = 100 /\ \A u \in TrafficVersions \ {v} : w[u] = 0
        \/ \E v \in TrafficVersions :
              w[v] = 0 /\ \A u \in TrafficVersions \ {v} : w[u] = 50}

\* Prescaling state of a Stack: inactive, or active with its target replicas
\* and the time of its last traffic increase.
PrescalingStates ==
    {[active |-> FALSE, replicas |-> 0, since |-> 0]}
        \cup [active : {TRUE}, replicas : 1..MaxReplicas,
              since : {1, 1 + ScaledownTTL}]

TrafficContainer(v, ingressSpec, desired, actual, ready, prescaling, pending) ==
    [BaseContainer EXCEPT
        !.name                 = generateStackName(BaseStackSet, v),
        !.version              = v,
        !.labels               = StackLabels(StackSetName, v),
        !.creationTimestamp    = TrafficCreated[v],
        !.ingressSpec          = ingressSpec,
        !.desiredTrafficWeight = desired,
        !.actualTrafficWeight  = actual,
        !.noTrafficSince       = IF actual > 0 \/ ingressSpec = Nil THEN 0 ELSE 1,
        !.prescalingActive     = prescaling.active,
        !.prescalingReplicas   = prescaling.replicas,
        !.PendingRemoval       = pending]
      @@ [readyReplicas                  |-> ready,
          prescalingDesiredTrafficWeight |->
              IF prescaling.active THEN desired ELSE 0,
          prescalingLastTrafficIncrease  |-> prescaling.since]

NotPrescaling == [active |-> FALSE, replicas |-> 0, since |-> 0]

\* The Stacks flagged for removal: none, or the oldest one.
FlaggedVersions == {{}, {"v2"}}

\* The requested weights: those that normalize without a remainder.
RequestedTraffic(pending) ==
    {desired \in [TrafficVersions -> RequestedWeights] :
        LET share(v) == IF v \in pending THEN 0 ELSE desired[v]
            sum == share("01") + share("v1") + share("v2")
        IN  IF sum = 0 THEN TRUE
            ELSE \A v \in TrafficVersions : (share(v) * 100) % sum = 0}

\* A Stack flagged for removal serves no traffic.
ServedTraffic(pending) ==
    {actual \in ServedWeights : \A v \in pending : actual[v] = 0}

\* A Stack without traffic that is not asked for any has been scaled down.
ReadyReplicas(desired, actual) ==
    {ready \in [TrafficVersions -> 0..MaxReplicas] :
        \A v \in TrafficVersions :
           (actual[v] = 0 /\ desired[v] = 0) => ready[v] = 0}

\* No Stack is prescaling, or one that is not flagged for removal is.
Prescalings(pending) ==
    {[v \in TrafficVersions |-> NotPrescaling]}
        \cup {[v \in TrafficVersions |-> IF v = p THEN state ELSE NotPrescaling] :
                 p \in TrafficVersions \ pending,
                 state \in PrescalingStates \ {NotPrescaling}}

InitTraffic ==
    /\ StackSet = BaseStackSet
    /\ now = 1 + ScaledownTTL
    /\ pc = "traffic"
    /\ input = {}
    /\ newStack = [stack |-> Nil, version |-> ""]
    /\ deployment = Nil
    /\ NothingGenerated
    /\ \/ \E ready \in [TrafficVersions -> 0..MaxReplicas] :
            StackContainers =
                {TrafficContainer(v, Nil, 0, 0, ready[v], NotPrescaling, FALSE) :
                    v \in TrafficVersions}
       \/ \E pending \in FlaggedVersions :
          \E desired \in RequestedTraffic(pending) :
          \E actual \in ServedTraffic(pending) :
          \E ready \in ReadyReplicas(desired, actual) :
          \E prescaling \in Prescalings(pending) :
            StackContainers =
                {TrafficContainer(v, Ptr(IngressSpec), desired[v], actual[v],
                                  ready[v], prescaling[v], v \in pending) :
                    v \in TrafficVersions}

\* ManageTraffic: normalize, prescale, then advance the actual weights;
\* without a Stack to route to, nothing is changed.
ReconcileTraffic ==
    /\ pc = "traffic"
    /\ pc' = "routed"
    /\ IF TrafficEligible(StackContainers) = {}
       THEN /\ err' = Ptr(errNoStacks)
            /\ UNCHANGED StackContainers
       ELSE /\ err' = Nil
            /\ \E fallback \in FallbackStacks(StackContainers) :
                  StackContainers' =
                      AdvanceTraffic(Prescale(
                          normalizeWeights(StackContainers, fallback.name)))
    /\ UNCHANGED <<StackSet, now, input, newStack, deployment,
                   hpa, service, ingress, status, cluster, previous, created>>

NextTraffic == ReconcileTraffic

SpecTraffic == InitTraffic /\ [][NextTraffic]_vars

----------------------------------------------------------------------------
(* Properties of the traffic reconciler, checked under SpecTraffic *)

\* The Stack of the next state that continues Stack sc.
After(sc) == CHOOSE next \in StackContainers' : next.name = sc.name

\* C12: in a pass of the traffic reconciler after which a Stack is prescaling
\* with fewer ready replicas than its prescaling replicas, the actual traffic
\* weight of that Stack, and of every other Stack, stays as it was.
C12_PrescalingHoldsTraffic ==
    [][ReconcileTraffic =>
         \A sc \in StackContainers :
            (/\ After(sc).prescalingActive
             /\ After(sc).readyReplicas < After(sc).prescalingReplicas)
            => \A other \in StackContainers :
                  After(other).actualTrafficWeight = other.actualTrafficWeight
      ]_vars

\* A pass held the traffic of a prescaling Stack that was to gain traffic.
C12_Witness ==
    /\ pc = "routed"
    /\ \E sc \in StackContainers :
          /\ sc.prescalingActive
          /\ sc.readyReplicas < sc.prescalingReplicas
          /\ sc.actualTrafficWeight = 0
          /\ sc.desiredTrafficWeight = 100
          /\ sc.prescalingLastTrafficIncrease = now

\* C13: after a pass of the traffic reconciler that found a Stack to route
\* to, the desired weights of the Stacks with an ingress that are not flagged
\* for removal sum to 100; when they summed to 0 before, the most recently
\* created such Stack has 100; when there is no such Stack, the pass fails
\* with errNoStacks.
C13_DesiredWeightsNormalized ==
    [][ReconcileTraffic =>
         LET eligible == TrafficEligible(StackContainers)
         IN  IF eligible = {}
             THEN err' = Ptr(errNoStacks)
             ELSE /\ err' = Nil
                  /\ SumDesired(TrafficEligible(StackContainers')) = 100
                  /\ SumDesired(eligible) = 0 =>
                        \E sc \in eligible :
                           /\ \A other \in eligible :
                                 other.creationTimestamp <= sc.creationTimestamp
                           /\ After(sc).desiredTrafficWeight = 100
      ]_vars

\* A pass normalized the weights of two Stacks to half each, next to a
\* Stack flagged for removal that the user asked traffic for.
C13_Witness ==
    /\ pc = "routed"
    /\ err = Nil
    /\ \E sc \in StackContainers :
          sc.PendingRemoval /\ sc.desiredTrafficWeight = 100
    /\ \A sc \in TrafficEligible(StackContainers) :
          sc.desiredTrafficWeight = 50

----------------------------------------------------------------------------
(* GenerateDeployment and GenerateService as functions of the labels of   *)
(* one Stack and of its pod template.                                     *)

LabelKeys == {StacksetHeritageLabelKey, StackVersionLabelKey, "team"}
LabelValues == {StackSetName, "v1", "other"}

\* Every map from some of the keys to the values.
LabelMaps == UNION {[keys -> LabelValues] : keys \in SUBSET LabelKeys}

HTTPContainers ==
    <<[ports |-> <<[name |-> "", protocol |-> "", containerPort |-> 80]>>]>>

InitSelectors ==
    /\ StackSet = BaseStackSet
    /\ now = 1
    /\ \E labels \in LabelMaps : \E podTemplateLabels \in LabelMaps :
          StackContainers =
             {[BaseContainer EXCEPT !.labels = labels,
                                    !.podTemplateLabels = podTemplateLabels]
              @@ [service |-> Nil, containers |-> HTTPContainers]}
    /\ pc = "generate"
    /\ input = {}
    /\ newStack = [stack |-> Nil, version |-> ""]
    /\ deployment = Nil
    /\ NothingGenerated

\* The Service is generated once, before or after the Deployment.
GenerateServiceStep ==
    /\ pc \in {"generate", "generated"}
    /\ service = Nil /\ err = Nil
    /\ \E sc \in StackContainers :
          /\ service' = GenerateService(sc).service
          /\ err' = GenerateService(sc).err
    /\ pc' = "generated"
    /\ UNCHANGED <<StackSet, StackContainers, now, input, newStack, deployment,
                   hpa, ingress, status, cluster, previous, created>>

NextSelectors == GenerateDeploymentStep \/ GenerateServiceStep

SpecSelectors == InitSelectors /\ [][NextSelectors]_vars

\* The Stack the resources were generated for.
TheStack == CHOOSE sc \in StackContainers : TRUE

\* selector holds only the selector keys, with the values of labels.
OnlySelectorLabels(selector, labels) ==
    /\ DOMAIN selector \subseteq {"stackset", "stack-version"}
    /\ \A key \in DOMAIN selector :
          key \in DOMAIN labels /\ selector[key] = labels[key]

\* C14: whatever labels the Stack carries, the selector of its generated
\* Deployment and the selector of its generated Service contain only the keys
\* stackset and stack-version, with the values of the Stack's labels.
C14_SelectorsHoldOnlySelectorLabels ==
    /\ deployment # Nil =>
          OnlySelectorLabels(Deref(deployment).selector, TheStack.labels)
    /\ service # Nil =>
          OnlySelectorLabels(Deref(service).selector, TheStack.labels)

\* A Deployment and a Service generated for a Stack with a third label and
\* both selector labels: the selectors have the two.
C14_Witness ==
    /\ deployment # Nil
    /\ service # Nil
    /\ DOMAIN TheStack.labels = LabelKeys
    /\ DOMAIN Deref(deployment).selector = {"stackset", "stack-version"}
    /\ DOMAIN Deref(service).selector = {"stackset", "stack-version"}

\* C15: for every Stack and every pod template, each selector label of the
\* generated Deployment is a label of its pod template, with the same value.
C15_SelectorWithinTemplateLabels ==
    deployment # Nil =>
       LET selector == Deref(deployment).selector
           templateLabels == Deref(deployment).templateLabels
       IN  \A key \in DOMAIN selector :
              key \in DOMAIN templateLabels
                 /\ templateLabels[key] = selector[key]

----------------------------------------------------------------------------
(* NewStack as a function of the StackSet's labels and template version.  *)

InitNewStack ==
    /\ \E labels \in LabelMaps : \E version \in Versions :
       \E observedStackVersion \in {"", "v1"} :
          StackSet = [BaseStackSet EXCEPT
                         !.labels = labels,
                         !.version = version,
                         !.observedStackVersion = observedStackVersion]
    /\ StackContainers \in {{}, {BaseContainer}}
    /\ now = 1
    /\ pc = "new"
    /\ input = Names(StackContainers)
    /\ newStack = [stack |-> Nil, version |-> ""]
    /\ deployment = Nil
    /\ NothingGenerated

NextNewStack == NewStackStep

SpecNewStack == InitNewStack /\ [][NextNewStack]_vars

\* C16: every Stack emitted by NewStack carries the labels
\* stackset = <stacksetName> and stack-version = <version>, for every set of
\* labels the user put on the StackSet, and an owner reference to the StackSet.
C16_EmittedStackCarriesSelectorLabels ==
    Emitted =>
       LET stack == Deref(newStack.stack)
       IN  /\ "stackset" \in DOMAIN stack.labels
           /\ stack.labels["stackset"] = StackSet.name
           /\ "stack-version" \in DOMAIN stack.labels
           /\ stack.labels["stack-version"] = newStack.version
           /\ \E n \in DOMAIN stack.ownerReferences :
                 /\ stack.ownerReferences[n].name = StackSet.name
                 /\ stack.ownerReferences[n].uid = StackSet.uid

----------------------------------------------------------------------------
(* GenerateService as a function of the Stack's service spec, the         *)
(* containers of its pod template and the backend port of the ingress.    *)

PortNumbers == {80, 8080}

SeqsUpTo(S, n) == UNION {[1..m -> S] : m \in 0..n}

\* Container ports: unnamed or named, the protocol unset, and one over UDP.
ContainerPortSpecs ==
    [name : {"", "http"}, protocol : {""}, containerPort : PortNumbers]
        \cup {[name |-> "", protocol |-> "UDP", containerPort |-> 80]}

ContainerSpecs(n) == {[ports |-> ports] : ports \in SeqsUpTo(ContainerPortSpecs, n)}

\* No container, one container, or two, the second with at most one port.
PodContainers ==
    {<<>>} \cup {<<c>> : c \in ContainerSpecs(MaxPorts)}
           \cup {<<c, d>> : c \in ContainerSpecs(MaxPorts), d \in ContainerSpecs(1)}

ServicePortSpecs ==
    [name : {"http", "admin"}, protocol : {"TCP"}, port : PortNumbers,
     targetPort : {FromInt(80)}]

\* No service spec, one without ports, or one with ports.
ServiceSpecs == {Nil} \cup {Ptr(ports) : ports \in SeqsUpTo(ServicePortSpecs, MaxPorts)}

BackendPorts ==
    {FromInt(80), FromInt(8080), FromInt(443),
     FromString("http"), FromString("port-1-0"), FromString("web")}

InitService ==
    /\ StackSet = BaseStackSet
    /\ now = 1
    /\ \E ingressSpec \in {Nil} \cup {Ptr([IngressSpec EXCEPT !.backendPort = b]) :
                                       b \in BackendPorts} :
       \E serviceSpec \in ServiceSpecs : \E containers \in PodContainers :
          \* the containers are not read when the service spec has ports
          /\ (serviceSpec # Nil /\ Len(Deref(serviceSpec)) > 0)
                => Len(containers) <= 1
          /\ StackContainers =
                {[BaseContainer EXCEPT !.ingressSpec = ingressSpec]
                 @@ [service |-> serviceSpec, containers |-> containers]}
    /\ pc = "generate"
    /\ input = {}
    /\ newStack = [stack |-> Nil, version |-> ""]
    /\ deployment = Nil
    /\ NothingGenerated

NextService == GenerateServiceStep

SpecService == InitService /\ [][NextService]_vars

\* The service ports of the Stack: the declared ones, else the ports of the
\* containers.
ServicePorts(sc) ==
    IF sc.service # Nil /\ Deref(sc.service) # <<>>
    THEN Deref(sc.service)
    ELSE servicePortsFromContainers(sc.containers)

\* A service port of the Stack matches the backend port of its ingress.
BackendPortMatched(sc) ==
    LET backendPort == Deref(sc.ingressSpec).backendPort
    IN  \E n \in DOMAIN ServicePorts(sc) :
           IF backendPort.type = "Int"
           THEN ServicePorts(sc)[n].port = backendPort.intVal
           ELSE ServicePorts(sc)[n].name = backendPort.strVal

\* C17: GenerateService fails and returns no Service if and only if the Stack
\* has an ingressSpec and no service port matches its backend port (by number
\* for an integer backend port, by name for a string one); without an
\* ingressSpec it returns the Service, whatever the ports.
C17_PortMismatchIffNoMatchingPort ==
    pc = "generated" =>
       /\ (err # Nil) <=> (/\ TheStack.ingressSpec # Nil
                           /\ ~BackendPortMatched(TheStack))
       /\ (err # Nil) <=> (service = Nil)
       /\ TheStack.ingressSpec = Nil => service # Nil

\* GenerateService failed for a Stack whose ports have other names than the
\* string backend port.
C17_Witness ==
    /\ pc = "generated"
    /\ err # Nil
    /\ service = Nil
    /\ Deref(TheStack.ingressSpec).backendPort.type = "String"
    /\ Len(ServicePorts(TheStack)) > 0

----------------------------------------------------------------------------
(* StackSetContainer.GenerateIngress as a function of the ingress spec    *)
(* and of a working set of up to three Stacks with their weights.         *)

IngressHosts == {<<>>, <<"foo.example.org">>, <<"foo.example.org", "foo.example.com">>}

IngressWeights == {0, 50, 100}

InitIngress ==
    /\ \E spec \in {Nil} \cup {Ptr([IngressSpec EXCEPT !.hosts = hosts]) :
                                hosts \in IngressHosts} :
          StackSet = [BaseStackSet EXCEPT !.ingress = spec]
    /\ now = 1
    /\ \E versions \in SUBSET TrafficVersions :
       \E actual \in [versions -> IngressWeights] :
       \E desired \in [versions -> IngressWeights] :
          StackContainers =
             {[BaseContainer EXCEPT
                  !.name                 = generateStackName(BaseStackSet, v),
                  !.version              = v,
                  !.labels               = StackLabels(StackSetName, v),
                  !.ingressSpec          = StackSet.ingress,
                  !.actualTrafficWeight  = actual[v],
                  !.desiredTrafficWeight = desired[v]] : v \in versions}
    /\ pc = "generate"
    /\ input = {}
    /\ newStack = [stack |-> Nil, version |-> ""]
    /\ deployment = Nil
    /\ NothingGenerated

GenerateIngressStep ==
    /\ pc = "generate"
    /\ \E order \in IterationOrders(StackContainers) :
       \E result \in GenerateIngress(StackSet, order) :
          /\ ingress' = result.ingress
          /\ err' = result.err
    /\ pc' = "generated"
    /\ UNCHANGED <<StackSet, StackContainers, now, input, newStack, deployment,
                   hpa, service, status, cluster, previous, created>>

NextIngress == GenerateIngressStep

SpecIngress == InitIngress /\ [][NextIngress]_vars

\* The names of the Stacks that serve traffic, and of those asked to.
ServingNames == {sc.name : sc \in {x \in StackContainers : x.actualTrafficWeight > 0}}
DesiredNames == {sc.name : sc \in {x \in StackContainers : x.desiredTrafficWeight > 0}}

\* C18: every rule of the generated shared ingress has exactly one path per
\* Stack with actualTrafficWeight > 0 and none for another Stack; its paths
\* ascend strictly by service name (sorted, no duplicates), whatever the
\* iteration order of the working set was.
C18_OnePathPerServingStackSorted ==
    ingress # Nil =>
       \A r \in DOMAIN Deref(ingress).rules :
          LET paths == Deref(ingress).rules[r].paths
          IN  /\ {paths[n].serviceName : n \in DOMAIN paths} = ServingNames
              /\ Len(paths) = Cardinality(ServingNames)
              /\ \A i, j \in DOMAIN paths :
                    i < j => StringLess(paths[i].serviceName,
                                        paths[j].serviceName)

\* An ingress with a rule of two paths for a working set of three Stacks,
\* one of which serves nothing.
C18_Witness ==
    /\ ingress # Nil
    /\ \E r \in DOMAIN Deref(ingress).rules :
          Len(Deref(ingress).rules[r].paths) = 2
    /\ Cardinality(StackContainers) = 3

\* C19: GenerateIngress returns errNoPaths and no ingress if and only if the
\* StackSet has an ingress spec and no Stack has actualTrafficWeight > 0;
\* without an ingress spec it returns neither an ingress nor an error.
C19_NoPathsIffNothingServes ==
    pc = "generated" =>
       /\ (err = Ptr(errNoPaths) /\ ingress = Nil)
             <=> (StackSet.ingress # Nil /\ ServingNames = {})
       /\ err # Nil => err = Ptr(errNoPaths)
       /\ (err = Nil /\ ingress = Nil) <=> StackSet.ingress = Nil

\* GenerateIngress failed for a working set of Stacks none of which serves.
C19_Witness ==
    /\ pc = "generated"
    /\ err = Ptr(errNoPaths)
    /\ ingress = Nil
    /\ StackContainers # {}

\* The map of the weights > 0 of the Stacks, under the field weight.
PositiveWeights(names, weight(_)) ==
    [name \in names |->
        weight(CHOOSE sc \in StackContainers : sc.name = name)]

\* C20: on the generated shared ingress the backend-weights annotation is the
\* map of exactly the Stacks with actualTrafficWeight > 0 (the Stacks that
\* have a path) to their actual weight, and the stack-traffic-weights
\* annotation the map of exactly the Stacks with desiredTrafficWeight > 0 to
\* their desired weight.
C20_WeightMapsHoldPositiveWeights ==
    ingress # Nil =>
       LET annotations == Deref(ingress).annotations
           actualOf(sc) == sc.actualTrafficWeight
           desiredOf(sc) == sc.desiredTrafficWeight
       IN  /\ annotations[backendWeightsAnnotationKey] =
                 jsonMarshal(PositiveWeights(ServingNames, actualOf))
           /\ annotations[stackTrafficWeightsAnnotationKey] =
                 jsonMarshal(PositiveWeights(DesiredNames, desiredOf))
           /\ \A r \in DOMAIN Deref(ingress).rules :
                 LET paths == Deref(ingress).rules[r].paths
                 IN  {paths[n].serviceName : n \in DOMAIN paths} = ServingNames

\* An ingress whose two maps differ: a Stack serves without being asked to,
\* another is asked to without serving, a third has neither weight.
C20_Witness ==
    /\ ingress # Nil
    /\ Deref(ingress).annotations[backendWeightsAnnotationKey]
          = "{\"foo-v1\":100}"
    /\ Deref(ingress).annotations[stackTrafficWeightsAnnotationKey]
          = "{\"foo-v2\":100}"
    /\ Cardinality(StackContainers) = 3

----------------------------------------------------------------------------
(* GenerateStackSetStatus as a function of the StackSet and of a working  *)
(* set of up to three Stacks, in a reconciliation that first asks         *)
(* NewStack for the Stack to create.                                      *)

\* The replica counts of the deployment of a Stack: the replicas it asks
\* for, the ready ones and the updated ones.
DeploymentCounts ==
    {c \in [deploymentReplicas : 0..MaxReplicas,
            readyReplicas      : 0..MaxReplicas,
            updatedReplicas    : 0..MaxReplicas] :
        /\ c.readyReplicas \in {0, c.deploymentReplicas, MaxReplicas}
        /\ c.updatedReplicas \in {0, c.deploymentReplicas, MaxReplicas}}

\* The traffic of a Stack: none, served, or asked for and not yet served.
TrafficStates ==
    {[actual |-> 0, desired |-> 0], [actual |-> 100, desired |-> 100],
     [actual |-> 0, desired |-> 100]}

StatusContainer(v, counts, traffic, pending) ==
    [BaseContainer EXCEPT
        !.name                 = generateStackName(BaseStackSet, v),
        !.version              = v,
        !.labels               = StackLabels(StackSetName, v),
        !.actualTrafficWeight  = traffic.actual,
        !.desiredTrafficWeight = traffic.desired,
        !.deploymentReplicas   = counts.deploymentReplicas,
        !.PendingRemoval       = pending]
      @@ [readyReplicas   |-> counts.readyReplicas,
          updatedReplicas |-> counts.updatedReplicas]

\* The Stacks of one version the working set may hold.
StatusContainers(v) ==
    {StatusContainer(v, counts, traffic, pending) :
        counts \in DeploymentCounts, traffic \in TrafficStates,
        pending \in BOOLEAN}

\* The oldest Stack, if there is one, is ready and serves nothing.
OldestContainers ==
    {StatusContainer(defaultVersion,
                     [deploymentReplicas |-> 1, readyReplicas |-> 1,
                      updatedReplicas |-> 1],
                     [actual |-> 0, desired |-> 0], pending) :
        pending \in BOOLEAN}

InitStatus ==
    /\ \E version \in {"v1", "v2"} : \E observedStackVersion \in {"", "v1"} :
          StackSet = [BaseStackSet EXCEPT
                         !.version = version,
                         !.observedStackVersion = observedStackVersion]
    /\ \E oldest \in {{}} \cup {{sc} : sc \in OldestContainers} :
       \E v1 \in StatusContainers("v1") :
       \E v2 \in {{}} \cup {{sc} : sc \in StatusContainers("v2")} :
          StackContainers = oldest \cup {v1} \cup v2
    /\ now = 1
    /\ pc = "new"
    /\ input = Names(StackContainers)
    /\ newStack = [stack |-> Nil, version |-> ""]
    /\ deployment = Nil
    /\ NothingGenerated

\* ReconcileStackSet: the status is generated after NewStack was asked, be
\* there a Stack to create or not.
GenerateStackSetStatusStep ==
    /\ pc = "create"
    /\ status' = Ptr(GenerateStackSetStatus(StackSet, StackContainers))
    /\ pc' = "generated"
    /\ UNCHANGED <<StackSet, StackContainers, now, input, newStack, deployment,
                   hpa, service, ingress, err, cluster, previous, created>>

NextStatus ==
    \/ NewStackStep
    \/ GenerateStackSetStatusStep

SpecStatus == InitStatus /\ [][NextStatus]_vars

\* The Stacks of the working set that are not flagged for removal.
Remaining == {sc \in StackContainers : ~sc.PendingRemoval}

\* C21: GenerateStackSetStatus counts only the Stacks that are not
\* PendingRemoval: stacks is their number, stacksWithTraffic the number of
\* those with HasTraffic and readyStacks the number of those with IsReady,
\* both at most stacks; observedStackVersion of the generated status equals
\* the value of the input status, also in the tick in which NewStack emits a
\* Stack.
C21_StatusCountsRemainingStacks ==
    status # Nil =>
       LET result == Deref(status)
       IN  /\ result.stacks = Cardinality(Remaining)
           /\ result.stacksWithTraffic =
                 Cardinality({sc \in Remaining :
                    sc.actualTrafficWeight > 0 \/ sc.desiredTrafficWeight > 0})
           /\ result.readyStacks =
                 Cardinality({sc \in Remaining :
                    /\ sc.deploymentReplicas >= 1
                    /\ sc.readyReplicas = sc.deploymentReplicas
                    /\ sc.updatedReplicas = sc.deploymentReplicas})
           /\ result.stacksWithTraffic <= result.stacks
           /\ result.readyStacks <= result.stacks
           /\ result.observedStackVersion = StackSet.observedStackVersion

\* A status generated in the tick in which NewStack emitted a Stack, for a
\* working set of two Stacks of which one is flagged for removal while it
\* is ready and serves traffic.
C21_Witness ==
    /\ status # Nil
    /\ newStack.stack # Nil
    /\ Deref(status).observedStackVersion # newStack.version
    /\ Cardinality(StackContainers) = 2
    /\ Deref(status).stacks = 1
    /\ \E sc \in StackContainers :
          sc.PendingRemoval /\ HasTraffic(sc) /\ IsReady(sc)

----------------------------------------------------------------------------
(* Two reconciliations of the same observed state: the working set is     *)
(* rebuilt from the cluster before each, PendingRemoval is not persisted, *)
(* and the map of StackContainers is ranged over in any order.            *)

\* The working set as the next reconciliation observes it.
Rebuilt(scs) == {[sc EXCEPT !.PendingRemoval = FALSE] : sc \in scs}

\* The results of a reconciliation.
Results ==
    [ newStack       |-> newStack,
      PendingRemoval |-> {sc.name : sc \in {x \in StackContainers :
                                               x.PendingRemoval}},
      ingress        |-> ingress,
      err            |-> err ]

InitReconcile ==
    /\ \E version \in {"v1", "v2"} :
       \E limit \in {Nil} \cup {Ptr(n) : n \in 0..MaxLimit} :
       \E ingressSpec \in {Nil, Ptr(IngressSpec)} :
          StackSet = [BaseStackSet EXCEPT !.version = version,
                                          !.limit = limit,
                                          !.ingress = ingressSpec]
    /\ now = 1 + ScaledownTTL
    /\ \E versions \in SUBSET {defaultVersion, "v1"} :
       \E createdAt \in [versions -> 1..2] :
       \E weight \in [versions -> Weights] :
          StackContainers =
             {[BaseContainer EXCEPT
                  !.name                 = generateStackName(BaseStackSet, v),
                  !.version              = v,
                  !.labels               = StackLabels(StackSetName, v),
                  !.creationTimestamp    = createdAt[v],
                  !.ingressSpec          = StackSet.ingress,
                  !.actualTrafficWeight  = weight[v],
                  !.desiredTrafficWeight = weight[v],
                  !.noTrafficSince       = IF weight[v] > 0 THEN 0 ELSE 1] :
                v \in versions}
    /\ pc = "new"
    /\ input = Names(StackContainers)
    /\ newStack = [stack |-> Nil, version |-> ""]
    /\ deployment = Nil
    /\ NothingGenerated

\* ReconcileStackSet without the writes: NewStack, MarkExpiredStacks and
\* GenerateIngress on the rebuilt working set.  The results of the
\* reconciliation before it are kept for comparison.
ReconcileStackSet ==
    /\ pc \in {"new", "again"}
    /\ previous' = IF pc = "new" THEN Nil ELSE Ptr(Results)
    /\ newStack' = NewStack(StackSet, Rebuilt(StackContainers))
    /\ \E expired \in ExpiredStacks(StackSet, Rebuilt(StackContainers)) :
          StackContainers' =
             MarkExpiredStacks(Rebuilt(StackContainers), expired)
    /\ \E order \in IterationOrders(Rebuilt(StackContainers)) :
       \E result \in GenerateIngress(StackSet, order) :
          /\ ingress' = result.ingress
          /\ err' = result.err
    /\ pc' = IF pc = "new" THEN "again" ELSE "generated"
    /\ UNCHANGED <<StackSet, now, input, deployment, hpa, service, status,
                   cluster, created>>

NextReconcile == ReconcileStackSet

SpecReconcile == InitReconcile /\ [][NextReconcile]_vars

\* C22: reconciling twice with the same observed state yields the same
\* results for every iteration order of the map of StackContainers: the same
\* new Stack, the same set of Stacks flagged PendingRemoval and the same
\* generated ingress.
C22_ReconcileTwiceSameResults ==
    previous # Nil => Deref(previous) = Results

----------------------------------------------------------------------------
(* NewStack as a function of the service spec of the StackSet's template, *)
(* followed by an edit of the template.                                   *)

\* The ports of the template's service: the protocol unset, TCP or UDP.
TemplatePortSpecs ==
    [name : {"http"}, protocol : {"", "TCP", "UDP"}, port : PortNumbers,
     targetPort : {FromInt(80)}]

TemplateServices ==
    {Nil} \cup {Ptr(ports) : ports \in SeqsUpTo(TemplatePortSpecs, MaxPorts)}

InitTemplate ==
    /\ \E version \in {"v1", "v2"} : \E observedStackVersion \in {"", "v1"} :
       \E templateService \in TemplateServices :
          StackSet = [BaseStackSet EXCEPT
                         !.version = version,
                         !.observedStackVersion = observedStackVersion]
                     @@ [service |-> templateService]
    /\ StackContainers \in {{}, {BaseContainer}}
    /\ now = 1
    /\ pc = "new"
    /\ input = Names(StackContainers)
    /\ newStack = [stack |-> Nil, version |-> ""]
    /\ deployment = Nil
    /\ NothingGenerated

\* The user edits the service of the template: the controller is handed a
\* new StackSet object.
UpdateTemplateService ==
    /\ pc = "create"
    /\ \E templateService \in TemplateServices \ {StackSet.service} :
          StackSet' = [StackSet EXCEPT !.service = templateService]
    /\ pc' = "idle"
    /\ UNCHANGED <<StackContainers, now, input, newStack, deployment,
                   generated, cluster, previous, created>>

NextTemplate ==
    \/ NewStackStep
    \/ UpdateTemplateService

SpecTemplate == InitTemplate /\ [][NextTemplate]_vars

\* C23: NewStack leaves the StackSet unchanged, the service ports of its
\* template included, and a later change of the template does not change a
\* Stack that was emitted before it.
C23_NewStackLeavesStackSetUnchanged ==
    [][/\ pc = "new" => StackSet' = StackSet
       /\ (pc = "create" /\ newStack.stack # Nil) => newStack' = newStack]_vars

----------------------------------------------------------------------------
(* The writer of the per-Stack resources (ReconcileStackDeployment,       *)
(* ReconcileStackService, ReconcileStackHPA, ReconcileStackIngress): it   *)
(* is handed the Stack, the stored object if there is one, and the        *)
(* generator, and creates, updates, deletes or leaves the stored object.  *)

\* The stored object was written for the generation the Stack has now.
IsResourceUpToDate(stack, meta) ==
    /\ stackGenerationAnnotationKey \in DOMAIN meta.annotations
    /\ meta.annotations[stackGenerationAnnotationKey]
          = FormatInt(stack.generation)

\* Mutant: the generated selector is applied on update.
ReconcileStackDeploymentWithSelector(stack, existing, updated) ==
    IF existing = Nil THEN Ptr(updated)
    ELSE IF /\ IsResourceUpToDate(stack, Deref(existing))
            /\ updated.replicas = Nil
    THEN existing
    ELSE Ptr(updated)

\* The Deployment stored after ReconcileStackDeployment.
ReconcileStackDeployment(stack, existing, updated) ==
    IF existing = Nil THEN Ptr(updated)
    ELSE IF /\ IsResourceUpToDate(stack, Deref(existing))
            /\ updated.replicas = Nil
    THEN existing
    ELSE Ptr([updated EXCEPT !.selector = Deref(existing).selector])

\* The Service stored after ReconcileStackService.
ReconcileStackService(stack, existing, updated) ==
    IF existing = Nil THEN Ptr(updated)
    ELSE IF IsResourceUpToDate(stack, Deref(existing))
    THEN existing
    ELSE Ptr([updated EXCEPT !.clusterIP = Deref(existing).clusterIP])

\* Mutant: a stored autoscaler stays when none is generated.
ReconcileStackHPAKeeping(stack, existing, updated) ==
    IF updated = Nil THEN existing
    ELSE IF existing = Nil THEN updated
    ELSE IF /\ IsResourceUpToDate(stack, Deref(existing))
            /\ Deref(existing).minReplicas = Deref(updated).minReplicas
    THEN existing
    ELSE updated

\* The autoscaler stored after ReconcileStackHPA; updated is the generated
\* object, Nil when the Stack needs none.
ReconcileStackHPA(stack, existing, updated) ==
    IF updated = Nil THEN Nil
    ELSE IF existing = Nil THEN updated
    ELSE IF /\ IsResourceUpToDate(stack, Deref(existing))
            /\ Deref(existing).minReplicas = Deref(updated).minReplicas
    THEN existing
    ELSE updated

\* Mutant: a stored ingress is replaced whatever generation it was written
\* for.
ReconcileStackIngressAlways(stack, existing, updated) ==
    updated

\* The ingress stored after ReconcileStackIngress; updated is the generated
\* object, Nil when the Stack needs none.
ReconcileStackIngress(stack, existing, updated) ==
    IF updated = Nil THEN Nil
    ELSE IF existing = Nil THEN updated
    ELSE IF IsResourceUpToDate(stack, Deref(existing))
    THEN existing
    ELSE updated

\* The Stacks the writer is handed: of generation 1 or 2, with or without
\* an autoscaler and an ingress, the deployment at any size.
WriterContainers ==
    {[BaseContainer EXCEPT
         !.generation         = generation,
         !.deploymentReplicas = deploymentReplicas,
         !.autoscaled         = horizontalPodAutoscaler # Nil,
         !.ingressSpec        = ingressSpec]
     @@ [autoscaler              |-> Nil,
         horizontalPodAutoscaler |-> horizontalPodAutoscaler,
         service                 |-> Nil,
         containers              |-> HTTPContainers] :
        generation \in 1..2,
        deploymentReplicas \in 0..MaxReplicas,
        horizontalPodAutoscaler \in {Nil} \cup {Ptr(h) : h \in HPASpecs},
        ingressSpec \in {Nil, Ptr(IngressSpec)}}

\* The annotations of an object written for a generation of the Stack.
StampedFor(generation) ==
    stackGenerationAnnotationKey :> FormatInt(generation)

\* The objects the cluster may hold for the Stack: written for generation 1
\* or 2, with the content the generators give them now or with another.
StoredDeployments(sc) ==
    {[GenerateDeployment(sc) EXCEPT
         !.annotations    = StampedFor(generation),
         !.replicas       = Ptr(replicas),
         !.selector       = selector,
         !.templateLabels = templateLabels] :
        generation \in 1..2,
        replicas \in 1..MaxReplicas,
        selector \in {limitLabels(sc.labels, selectorLabels), "foo" :> "bar"},
        templateLabels \in {sc.labels, sc.labels @@ ("app" :> "foo")}}

StoredServices(sc) ==
    {[Deref(GenerateService(sc).service) EXCEPT
         !.annotations = StampedFor(generation),
         !.clusterIP   = "10.3.0.1",
         !.ports       = ports] :
        generation \in 1..2,
        ports \in {Deref(GenerateService(sc).service).ports,
                   <<[name |-> "foo", protocol |-> "TCP", port |-> 8080,
                      targetPort |-> FromInt(80)]>>}}

StoredHPAs(sc) ==
    {[ annotations |-> StampedFor(generation),
       minReplicas |-> minReplicas,
       maxReplicas |-> MaxReplicas + 2,
       metrics     |-> metrics ] @@ resourceMeta(sc) :
        generation \in 1..2,
        minReplicas \in OptionalReplicas,
        metrics \in {"memory", "cpu"}}

StoredIngresses(sc) ==
    {[ annotations |-> StampedFor(generation),
       rules       |-> <<[host  |-> host,
                          paths |-> <<[path        |-> "/",
                                       serviceName |-> sc.name,
                                       servicePort |-> FromInt(80)]>>]>> ]
     @@ resourceMeta(sc) :
        generation \in 1..2,
        host \in {"foo-v1.foo.example.org", "example.org"}}

\* The kinds of the per-Stack resources.
Kinds == {"deployment", "service", "hpa", "ingress"}

NothingStored == [kind \in Kinds |-> Nil]

InitWriter ==
    /\ StackSet = BaseStackSet
    /\ now = 1
    /\ \E sc \in WriterContainers : StackContainers = {sc}
    /\ pc \in Kinds
    /\ \E existing \in {Nil} \cup
          {Ptr(object) : object \in
             CASE pc = "deployment" -> StoredDeployments(TheStack)
               [] pc = "service"    -> StoredServices(TheStack)
               [] pc = "hpa"        -> StoredHPAs(TheStack)
               [] pc = "ingress"    -> StoredIngresses(TheStack)} :
          cluster = [NothingStored EXCEPT ![pc] = existing]
    /\ input = {}
    /\ newStack = [stack |-> Nil, version |-> ""]
    /\ deployment = Nil
    /\ hpa = Nil
    /\ service = Nil
    /\ ingress = Nil
    /\ err = Nil
    /\ status = Nil
    /\ previous = Nil
    /\ created = <<>>

ReconcileStackDeploymentStep ==
    /\ pc = "deployment"
    /\ deployment' = Ptr(GenerateDeployment(TheStack))
    /\ cluster' = [cluster EXCEPT !.deployment =
                      ReconcileStackDeployment(TheStack, @,
                                               GenerateDeployment(TheStack))]
    /\ previous' = Ptr([kind |-> pc, existing |-> cluster[pc]])
    /\ pc' = "written"
    /\ UNCHANGED <<StackSet, StackContainers, now, input, newStack, generated,
                   created>>

\* GenerateService finds a port for every Stack the writer is handed here.
ReconcileStackServiceStep ==
    /\ pc = "service"
    /\ GenerateService(TheStack).err = Nil
    /\ service' = GenerateService(TheStack).service
    /\ cluster' = [cluster EXCEPT !.service =
                      ReconcileStackService(TheStack, @,
                                            Deref(GenerateService(TheStack).service))]
    /\ previous' = Ptr([kind |-> pc, existing |-> cluster[pc]])
    /\ pc' = "written"
    /\ UNCHANGED <<StackSet, StackContainers, now, input, newStack, deployment,
                   hpa, ingress, err, status, created>>

ReconcileStackHPAStep ==
    /\ pc = "hpa"
    /\ GenerateHPA(TheStack).err = Nil
    /\ hpa' = GenerateHPA(TheStack).hpa
    /\ cluster' = [cluster EXCEPT !.hpa =
                      ReconcileStackHPA(TheStack, @, GenerateHPA(TheStack).hpa)]
    /\ previous' = Ptr([kind |-> pc, existing |-> cluster[pc]])
    /\ pc' = "written"
    /\ UNCHANGED <<StackSet, StackContainers, now, input, newStack, deployment,
                   service, ingress, err, status, created>>

ReconcileStackIngressStep ==
    /\ pc = "ingress"
    /\ StackContainerGenerateIngress(TheStack).err = Nil
    /\ ingress' = StackContainerGenerateIngress(TheStack).ingress
    /\ cluster' = [cluster EXCEPT !.ingress =
                      ReconcileStackIngress(TheStack, @,
                         StackContainerGenerateIngress(TheStack).ingress)]
    /\ previous' = Ptr([kind |-> pc, existing |-> cluster[pc]])
    /\ pc' = "written"
    /\ UNCHANGED <<StackSet, StackContainers, now, input, newStack, deployment,
                   hpa, service, err, status, created>>

NextWriter ==
    \/ ReconcileStackDeploymentStep
    \/ ReconcileStackServiceStep
    \/ ReconcileStackHPAStep
    \/ ReconcileStackIngressStep

SpecWriter == InitWriter /\ [][NextWriter]_vars

\* The kind the writer was called for, the object that was stored before the
\* call, the generated object of that kind and the object stored now.
WrittenKind == Deref(previous).kind
Existing == Deref(previous).existing
Generated ==
    CASE WrittenKind = "deployment" -> deployment
      [] WrittenKind = "service"    -> service
      [] WrittenKind = "hpa"        -> hpa
      [] WrittenKind = "ingress"    -> ingress
Stored == cluster[WrittenKind]

\* The generated object with the fields an update keeps from the stored one.
Applied(kind, generatedObject, existingObject) ==
    CASE kind = "deployment" ->
            [generatedObject EXCEPT !.selector = existingObject.selector]
      [] kind = "service" ->
            [generatedObject EXCEPT !.clusterIP = existingObject.clusterIP]
      [] OTHER -> generatedObject

\* The cases in which an object of the Stack's generation is written again.
StillUpdated(kind, generatedObject, existingObject) ==
    \/ kind = "deployment" /\ generatedObject.replicas # Nil
    \/ kind = "hpa" /\ generatedObject.minReplicas # existingObject.minReplicas

\* C24: when the stack-generation annotation of the stored object equals the
\* Stack's generation, the writer leaves the stored object unchanged, even
\* if the generated object differs from it, except that a Deployment is
\* still updated when the generated replicas are set and an autoscaler when
\* its minReplicas changed.
C24_UpToDateObjectIsLeftAlone ==
    (/\ pc = "written"
     /\ Existing # Nil
     /\ Generated # Nil
     /\ Deref(Existing).annotations[stackGenerationAnnotationKey]
           = ToString(TheStack.generation))
    => IF StillUpdated(WrittenKind, Deref(Generated), Deref(Existing))
       THEN Stored = Ptr(Applied(WrittenKind, Deref(Generated), Deref(Existing)))
       ELSE Stored = Existing

\* The writer left a stored ingress of the Stack's generation as it was,
\* while the ingress generated now has other rules.
C24_Witness ==
    /\ pc = "written"
    /\ WrittenKind = "ingress"
    /\ Existing # Nil
    /\ Generated # Nil
    /\ Deref(Existing).annotations = Deref(Generated).annotations
    /\ Deref(Existing).rules # Deref(Generated).rules
    /\ Stored = Existing

\* C25: when no object is stored, the writer creates the generated object;
\* when the stack-generation annotation of the stored object differs from
\* the Stack's generation, the writer replaces it with the generated object,
\* whose stack-generation annotation is the decimal string of the Stack's
\* generation.
C25_CreatedOrReplacedByGenerated ==
    (pc = "written" /\ Generated # Nil) =>
       /\ Existing = Nil => Stored = Generated
       /\ (/\ Existing # Nil
           /\ Deref(Existing).annotations[stackGenerationAnnotationKey]
                 # ToString(TheStack.generation))
          => /\ Stored = Ptr(Applied(WrittenKind, Deref(Generated),
                                     Deref(Existing)))
             /\ Deref(Stored).annotations[stackGenerationAnnotationKey]
                   = ToString(TheStack.generation)

\* A Service written for generation 1 was replaced for a Stack of
\* generation 2, with other ports.
C25_Witness ==
    /\ pc = "written"
    /\ WrittenKind = "service"
    /\ TheStack.generation = 2
    /\ Existing # Nil
    /\ Deref(Existing).annotations[stackGenerationAnnotationKey] = "1"
    /\ Deref(Stored).annotations[stackGenerationAnnotationKey] = "2"
    /\ Deref(Stored).ports # Deref(Existing).ports

\* C26: when the generator yields no object for the autoscaler or for the
\* per-Stack ingress and an object is stored, the writer deletes it.
C26_UnneededObjectIsDeleted ==
    (/\ pc = "written"
     /\ WrittenKind \in {"hpa", "ingress"}
     /\ Generated = Nil
     /\ Existing # Nil)
    => Stored = Nil

\* An autoscaler of the Stack's generation was stored for a Stack that has
\* no autoscaler spec, and is gone.
C26_Witness ==
    /\ pc = "written"
    /\ WrittenKind = "hpa"
    /\ TheStack.horizontalPodAutoscaler = Nil
    /\ Existing # Nil
    /\ IsResourceUpToDate(TheStack, Deref(Existing))
    /\ Stored = Nil

\* C27: on an update, the updated Deployment keeps the stored spec.selector
\* and the updated Service keeps the stored ClusterIP; the other generated
\* fields are applied.
C27_UpdateKeepsSelectorAndClusterIP ==
    (/\ pc = "written"
     /\ WrittenKind \in {"deployment", "service"}
     /\ Existing # Nil
     /\ Stored # Existing)
    => LET kept == IF WrittenKind = "deployment" THEN "selector"
                   ELSE "clusterIP"
       IN  /\ Deref(Stored)[kept] = Deref(Existing)[kept]
           /\ \A field \in DOMAIN Deref(Generated) \ {kept} :
                 Deref(Stored)[field] = Deref(Generated)[field]
           /\ DOMAIN Deref(Stored) = DOMAIN Deref(Generated)

\* A Deployment was updated for a new generation of the Stack: it has the
\* generated template labels and the selector that was stored, which is not
\* the generated one.
C27_Witness ==
    /\ pc = "written"
    /\ WrittenKind = "deployment"
    /\ Existing # Nil
    /\ Deref(Stored).selector = "foo" :> "bar"
    /\ Deref(Generated).selector # Deref(Stored).selector
    /\ Deref(Stored).templateLabels # Deref(Existing).templateLabels
    /\ Deref(Stored).templateLabels = Deref(Generated).templateLabels

----------------------------------------------------------------------------
(* The creation of the current Stack by a writer that can fail: the Stack *)
(* NewStack emits is persisted first, and status.observedStackVersion is  *)
(* bumped after it.  Either write can fail, which ends the step; the rest *)
(* of the reconciliation flags and cleans up the expired Stacks.          *)

\* The Stacks the writer creates in a run of the model.
MaxCreated == 3

InitCreate ==
    /\ \E version \in {"v1", "v2"} : \E limit \in 0..MaxLimit :
          StackSet = [BaseStackSet EXCEPT !.version = version,
                                          !.observedStackVersion = "",
                                          !.limit = Ptr(limit),
                                          !.ingress = Nil]
    /\ StackContainers = {}
    /\ now = 1
    /\ pc = "idle"
    /\ input = {}
    /\ newStack = [stack |-> Nil, version |-> ""]
    /\ deployment = Nil
    /\ NothingGenerated

\* The outcomes of the two writes of CreateCurrentStack.
WriteOutcomes == {"create-failed", "status-failed", "ok"}

\* CreateCurrentStack: NewStack is asked for the Stack to create; the Stack
\* is persisted, and after it the observed version is bumped, unless a write
\* fails.  A version that was emitted and not persisted is remembered for
\* the next reconciliation to compare with.
CreateCurrentStack ==
    /\ pc = "new"
    /\ newStack' = NewStack(StackSet, StackContainers)
    /\ IF newStack'.stack = Nil
       THEN /\ previous' = Nil
            /\ UNCHANGED <<StackSet, StackContainers, created>>
       ELSE /\ Len(created) < MaxCreated
            /\ \E outcome \in WriteOutcomes :
                  /\ StackContainers' =
                        IF outcome = "create-failed" THEN StackContainers
                        ELSE StackContainers \cup
                                {Observed(StackSet, Deref(newStack'.stack))}
                  /\ created' =
                        IF outcome = "create-failed" THEN created
                        ELSE Append(created, Deref(newStack'.stack).name)
                  /\ StackSet' =
                        IF outcome = "ok"
                        THEN [StackSetAfterNewStack(StackSet, StackContainers)
                                 EXCEPT !.observedStackVersion = newStack'.version]
                        ELSE StackSetAfterNewStack(StackSet, StackContainers)
                  /\ previous' =
                        IF outcome = "create-failed" THEN Ptr(newStack'.version)
                        ELSE Nil
    /\ pc' = "mark"
    /\ UNCHANGED <<now, input, deployment, generated, cluster>>

NextCreate ==
    \/ UpdateTemplateVersion
    \/ StartReconcile
    \/ CreateCurrentStack
    \/ MarkExpiredStacksStep
    \/ CleanupOldStacks

SpecCreate == InitCreate /\ [][NextCreate]_vars

\* A version that was emitted and not persisted is, the template version
\* staying the same, emitted again by the next reconciliation.
UnpersistedIsEmittedAgain ==
    (/\ pc = "new"
     /\ pc' = "mark"
     /\ previous # Nil
     /\ currentStackVersion(StackSet) = Deref(previous))
    => /\ newStack'.stack # Nil
       /\ newStack'.version = Deref(previous)

----------------------------------------------------------------------------
(* A pass of the traffic reconciler followed by GenerateDeployment: the   *)
(* user moves the traffic from the serving Stack to another one, which    *)
(* may be scaled to zero and may be prescaling already.                   *)

InitPrescale ==
    /\ StackSet = BaseStackSet
    /\ now = 1 + ScaledownTTL
    /\ pc = "traffic"
    /\ input = {}
    /\ newStack = [stack |-> Nil, version |-> ""]
    /\ deployment = Nil
    /\ NothingGenerated
    /\ \E moved \in BOOLEAN : \E prescaling \in PrescalingStates :
       \E servingReady \in 0..MaxReplicas : \E ready \in 0..MaxReplicas :
       \E stackReplicas \in 0..1 : \E deploymentReplicas \in 0..MaxReplicas :
          StackContainers =
             {TrafficContainer("v1", Ptr(IngressSpec),
                               IF moved THEN 0 ELSE 100, 100, servingReady,
                               NotPrescaling, FALSE),
              [TrafficContainer("v2", Ptr(IngressSpec),
                                IF moved THEN 100 ELSE 0, 0, ready,
                                prescaling, FALSE)
                  EXCEPT !.stackReplicas = stackReplicas,
                         !.deploymentReplicas = deploymentReplicas]}

NextPrescale ==
    \/ ReconcileTraffic
    \/ GenerateDeploymentStep

SpecPrescale == InitPrescale /\ [][NextPrescale]_vars

\* The Stack the Deployment was generated for.
DeployedStack ==
    CHOOSE sc \in StackContainers : sc.name = Deref(deployment).name

----------------------------------------------------------------------------
(* GenerateDeployment tick after tick for one Stack without autoscaler,   *)
(* its prescaling state, its replicas and the clock staying as they are:  *)
(* the replicas written in a tick are applied to the deployment, and the  *)
(* next tick observes them.                                               *)

\* The ticks of a run of the model.
MaxTicks == 3

InitConverge ==
    /\ StackSet = BaseStackSet
    /\ now \in 1..MaxTime
    /\ \E sc \in InputContainers :
          /\ ~sc.autoscaled
          /\ sc.ingressSpec = Nil =>
                sc.actualTrafficWeight = 0 /\ sc.desiredTrafficWeight = 0
          /\ sc.noTrafficSince <= now
          /\ StackContainers = {sc}
    /\ pc = "generate"
    /\ input = {}
    /\ newStack = [stack |-> Nil, version |-> ""]
    /\ deployment = Nil
    /\ NothingGenerated

\* The replicas written in the ticks so far, in order; Nil for a tick that
\* left the replicas unset.
WrittenReplicas == IF previous = Nil THEN <<>> ELSE Deref(previous)

\* One tick: the Deployment is generated and the replicas it sets, if any,
\* are applied to the deployment the next tick observes.
ReconcileStackDeploymentTick ==
    /\ pc \in {"generate", "generated"}
    /\ Len(WrittenReplicas) < MaxTicks
    /\ deployment' = Ptr(GenerateDeployment(TheStack))
    /\ StackContainers' =
          IF Deref(deployment').replicas # Nil
          THEN {[TheStack EXCEPT !.deploymentReplicas =
                                    Deref(Deref(deployment').replicas)]}
          ELSE StackContainers
    /\ previous' = Ptr(Append(WrittenReplicas, Deref(deployment').replicas))
    /\ pc' = "generated"
    /\ UNCHANGED <<StackSet, now, input, newStack, generated, cluster, created>>

NextConverge == ReconcileStackDeploymentTick

SpecConverge == InitConverge /\ [][NextConverge]_vars

\* C30: for a Stack without autoscaler whose prescaling state, stackReplicas
\* and ScaledDown status stay as they are, and a writer that applies each
\* written replica count so that the next tick observes it as
\* deploymentReplicas, GenerateDeployment writes replicas in at most one
\* tick and leaves them unset in every later tick.
C30_ReplicasWrittenAtMostOnce ==
    \A tick \in DOMAIN WrittenReplicas :
       tick > 1 => WrittenReplicas[tick] = Nil

\* A Stack that was prescaling at another size than its deployment ran: the
\* first tick wrote the prescaling replicas, the next two wrote nothing.
C30_Witness ==
    /\ Len(WrittenReplicas) = MaxTicks
    /\ TheStack.prescalingActive
    /\ WrittenReplicas[1] = Ptr(TheStack.prescalingReplicas)
    /\ TheStack.prescalingReplicas # TheStack.stackReplicas
    /\ \A tick \in 2..MaxTicks : WrittenReplicas[tick] = Nil

----------------------------------------------------------------------------
(* A Stack with an ingress that lost its traffic at time 1 and gets none  *)
(* back, tick after tick: MarkExpiredStacks, then GenerateDeployment, then *)
(* the clock advances, the flagged Stack is deleted and the next tick     *)
(* observes the replicas that were written.                               *)

InitScaledown ==
    /\ StackSet \in {[BaseStackSet EXCEPT !.limit = limit] :
                        limit \in {Nil} \cup {Ptr(n) : n \in 0..MaxLimit}}
    /\ now = 1
    /\ \E sc \in InputContainers :
          /\ sc.ingressSpec # Nil
          /\ sc.actualTrafficWeight = 0
          /\ sc.desiredTrafficWeight = 0
          /\ sc.noTrafficSince = 1
          /\ StackContainers = {sc}
    /\ pc = "mark"
    /\ input = {}
    /\ newStack = [stack |-> Nil, version |-> ""]
    /\ deployment = Nil
    /\ NothingGenerated

\* The Deployment of the Stack is generated after MarkExpiredStacks; the
\* replicas it sets are recorded tick by tick.
GenerateDeploymentAfterMark ==
    /\ pc = "cleanup"
    /\ StackContainers # {}
    /\ deployment' = Ptr(GenerateDeployment(TheStack))
    /\ previous' = Ptr(Append(WrittenReplicas, Deref(deployment').replicas))
    /\ pc' = "generated"
    /\ UNCHANGED <<StackSet, StackContainers, now, input, newStack, generated,
                   cluster, created>>

\* The next tick: the clock has advanced, the flagged Stack is gone, the
\* working set is built afresh and observes the replicas that were written.
\* The weights stay 0, so noTrafficSince stays as it is.
NextScaledownTick ==
    /\ pc = "generated"
    /\ now < MaxTime
    /\ now' = now + 1
    /\ StackContainers' =
          {[sc EXCEPT !.deploymentReplicas =
                          IF Deref(deployment).replicas # Nil
                          THEN Deref(Deref(deployment).replicas)
                          ELSE sc.deploymentReplicas] :
              sc \in {c \in StackContainers : ~c.PendingRemoval}}
    /\ pc' = "mark"
    /\ UNCHANGED <<StackSet, input, newStack, deployment, generated, cluster,
                   previous, created>>

NextScaledown ==
    \/ MarkExpiredStacksStep
    \/ GenerateDeploymentAfterMark
    \/ NextScaledownTick

SpecScaledown == InitScaledown /\ [][NextScaledown]_vars

\* The TTL has run out for the Stack, as the claim words it.
TTLElapsed(sc) == now - sc.noTrafficSince >= ScaledownTTL

\* C31: a Stack with an ingressSpec whose actual and desired weights stay 0
\* is ScaledDown exactly from the tick on in which now - noTrafficSince >=
\* scaledownTTLSeconds.  From that tick on it is a garbage-collection
\* candidate (flagged only then, and flagged when the limit is 0) and
\* GenerateDeployment writes replicas 0 while deploymentReplicas # 0; before
\* that tick it is no candidate and replicas 0 is written only for a Stack
\* whose desired replicas are 0.
C31_ScaledDownOnceTTLElapsed ==
    \A sc \in StackContainers :
       /\ ScaledDown(sc) <=> TTLElapsed(sc)
       /\ (sc \in gcCandidates(StackContainers)) <=> TTLElapsed(sc)
       /\ pc \in {"cleanup", "generated"} =>
             /\ sc.PendingRemoval => TTLElapsed(sc)
             /\ (TTLElapsed(sc) /\ StackSet.limit = Ptr(0)) => sc.PendingRemoval
       /\ pc = "generated" =>
             /\ (TTLElapsed(sc) /\ sc.deploymentReplicas # 0)
                   => Deref(deployment).replicas = Ptr(0)
             /\ (~TTLElapsed(sc) /\ Deref(deployment).replicas = Ptr(0))
                   => (IF sc.prescalingActive THEN sc.prescalingReplicas
                       ELSE sc.stackReplicas) = 0

\* A Stack that runs its own replicas: the tick before the TTL ran out left
\* the replicas unset and the Stack was no candidate, the tick in which it
\* ran out wrote 0 and the Stack, a candidate now, is kept under limit 1.
C31_Witness ==
    /\ pc = "generated"
    /\ StackContainers # {}
    /\ now - TheStack.noTrafficSince = ScaledownTTL
    /\ TheStack.stackReplicas > 0
    /\ TheStack.deploymentReplicas = TheStack.stackReplicas
    /\ ~TheStack.prescalingActive
    /\ Len(WrittenReplicas) = now
    /\ \A tick \in 1..(now - 1) : WrittenReplicas[tick] = Nil
    /\ WrittenReplicas[now] = Ptr(0)
    /\ TheStack \in gcCandidates(StackContainers)
    /\ ~TheStack.PendingRemoval

----------------------------------------------------------------------------
(* The autoscaler of a prescaling Stack tick after tick: GenerateHPA and   *)
(* ReconcileStackHPA run, then the traffic reconciler holds, ends or       *)
(* starts the prescaling.  The Stack's spec and generation stay as they    *)
(* are, and the cluster holds no autoscaler at first.                      *)

InitClamp ==
    /\ StackSet = BaseStackSet
    /\ now = 1
    /\ \E autoscaler \in {Nil} \cup
             {Ptr(a) : a \in {as \in AutoscalerSpecs : as.metrics = "cpu"}} :
       \E horizontalPodAutoscaler \in {Nil} \cup {Ptr(h) : h \in HPASpecs} :
       \E generation \in 1..2 : \E prescaling \in 1..MaxReplicas :
          /\ autoscaler # Nil \/ horizontalPodAutoscaler # Nil
          /\ StackContainers =
                {[BaseContainer EXCEPT
                     !.generation = generation,
                     !.autoscaled = TRUE,
                     !.prescalingActive = TRUE,
                     !.prescalingReplicas = prescaling]
                 @@ [autoscaler |-> autoscaler,
                     horizontalPodAutoscaler |-> horizontalPodAutoscaler]}
    /\ cluster = NothingStored
    /\ pc = "hpa"
    /\ input = {}
    /\ newStack = [stack |-> Nil, version |-> ""]
    /\ deployment = Nil
    /\ hpa = Nil
    /\ service = Nil
    /\ ingress = Nil
    /\ err = Nil
    /\ status = Nil
    /\ previous = Nil
    /\ created = <<>>

\* The traffic reconciler before the next tick: the prescaling is held, or
\* it ends (prescalingActive is cleared, prescalingReplicas reset or left),
\* or it starts anew.
ManagePrescaling ==
    /\ pc = "written"
    /\ \E active \in BOOLEAN : \E prescaling \in 0..MaxReplicas :
          /\ active => prescaling > 0
          /\ (active /\ TheStack.prescalingActive)
                => prescaling = TheStack.prescalingReplicas
          /\ (~active /\ prescaling > 0)
                => prescaling = TheStack.prescalingReplicas
          /\ StackContainers' =
                {[TheStack EXCEPT !.prescalingActive = active,
                                  !.prescalingReplicas = prescaling]}
    /\ pc' = "hpa"
    /\ UNCHANGED <<StackSet, now, input, newStack, deployment, generated,
                   cluster, previous, created>>

NextClamp ==
    \/ ReconcileStackHPAStep
    \/ ManagePrescaling

SpecClamp == InitClamp /\ [][NextClamp]_vars

\* C32: in every tick in which prescalingActive is false, the first one
\* after the prescaling included, the generated HPA carries the minReplicas
\* of the Stack's spec, and the HPA stored after the writer's call is the
\* generated one, although the HPA stored before carries the Stack's
\* generation.
C32_ClampEndsWithPrescaling ==
    (pc = "written" /\ ~TheStack.prescalingActive) =>
        /\ hpa # Nil
        /\ Deref(hpa).minReplicas = SpecMinReplicas(TheStack)
        /\ cluster.hpa = hpa
        /\ Existing # Nil =>
              Deref(Existing).annotations[stackGenerationAnnotationKey]
                 = ToString(TheStack.generation)

\* The HPA stored while the Stack was prescaling held the prescaling
\* replicas as minReplicas; in the tick after the prescaling ended the
\* writer replaced it by one with the spec's smaller minReplicas, the
\* generation being the same.
C32_Witness ==
    /\ pc = "written"
    /\ ~TheStack.prescalingActive
    /\ Existing # Nil
    /\ Deref(Existing).annotations[stackGenerationAnnotationKey]
          = ToString(TheStack.generation)
    /\ SpecMinReplicas(TheStack) # Nil
    /\ Deref(Existing).minReplicas # SpecMinReplicas(TheStack)
    /\ Deref(Deref(Existing).minReplicas) > Deref(SpecMinReplicas(TheStack))
    /\ Deref(cluster.hpa).minReplicas = SpecMinReplicas(TheStack)

----------------------------------------------------------------------------
(* One tick of the resource generators for one Stack: GenerateDeployment, *)
(* then GenerateHPA, on a Stack that prescales or not, serves traffic or  *)
(* lost it at time 1, with or without an autoscaling spec.                *)

InitFloor ==
    /\ StackSet = BaseStackSet
    /\ now \in 1..MaxTime
    /\ \E autoscaler \in {Nil} \cup {Ptr(a) : a \in AutoscalerSpecs} :
       \E horizontalPodAutoscaler \in {Nil} \cup {Ptr(h) : h \in HPASpecs} :
       \E active \in BOOLEAN : \E prescaling \in 0..MaxReplicas :
       \E deploymentReplicas \in 0..MaxReplicas : \E serving \in BOOLEAN :
          StackContainers =
             {[BaseContainer EXCEPT
                  !.autoscaled = autoscaler # Nil \/ horizontalPodAutoscaler # Nil,
                  !.prescalingActive = active,
                  !.prescalingReplicas = prescaling,
                  !.deploymentReplicas = deploymentReplicas,
                  !.actualTrafficWeight = IF serving THEN 100 ELSE 0,
                  !.desiredTrafficWeight = IF serving THEN 100 ELSE 0,
                  !.noTrafficSince = IF serving THEN 0 ELSE 1]
              @@ [autoscaler |-> autoscaler,
                  horizontalPodAutoscaler |-> horizontalPodAutoscaler]}
    /\ pc = "generate"
    /\ input = {}
    /\ newStack = [stack |-> Nil, version |-> ""]
    /\ deployment = Nil
    /\ NothingGenerated

\* GenerateHPA for the Stack whose Deployment was generated.
GenerateHPAAfterDeployment ==
    /\ pc = "generated"
    /\ hpa' = GenerateHPA(TheStack).hpa
    /\ err' = GenerateHPA(TheStack).err
    /\ pc' = "reconciled"
    /\ UNCHANGED <<StackSet, StackContainers, now, input, newStack, deployment,
                   service, ingress, status, cluster, previous, created>>

NextFloor ==
    \/ GenerateDeploymentStep
    \/ GenerateHPAAfterDeployment

SpecFloor == InitFloor /\ [][NextFloor]_vars

\* The Stacks the floor is claimed for.
Prescaling(sc) ==
    sc.prescalingActive /\ sc.prescalingReplicas > 0 /\ ~ScaledDown(sc)

\* The three ways the outputs of the tick hold the floor.
FloorWritten(sc) ==
    Deref(deployment).replicas = Ptr(sc.prescalingReplicas)
FloorRuns(sc) ==
    sc.deploymentReplicas = sc.prescalingReplicas
FloorInHPA(sc) ==
    /\ IsAutoscaled(sc)
    /\ hpa # Nil
    /\ Deref(hpa).minReplicas # Nil
    /\ Deref(Deref(hpa).minReplicas) >= sc.prescalingReplicas

----------------------------------------------------------------------------
(* MarkExpiredStacks twice: on a working set of up to MaxStacks Stacks,   *)
(* then, the flagged Stacks deleted and nothing else changed, on the      *)
(* Stacks that remain.                                                    *)

\* The Stacks of the working set that serve traffic: none, one, the oldest
\* ones or the newest ones.
ServingStacks(n) ==
    {{}} \cup {{i} : i \in 1..n} \cup {1..k : k \in 1..n} \cup {k..n : k \in 1..n}

InitFixpoint ==
    /\ StackSet \in [ name                 : {StackSetName},
                      version              : {"v1"},
                      observedStackVersion : {"v1"},
                      limit                : {Nil} \cup {Ptr(n) : n \in 0..MaxLimit},
                      ingress              : {Nil, Ptr(IngressSpec)},
                      replicas             : {Ptr(1)},
                      autoscaled           : {FALSE},
                      uid                  : {StackSetUID},
                      labels               : {NoLabels},
                      podTemplateLabels    : {NoLabels} ]
    /\ now = 1 + ScaledownTTL
    /\ \E n \in 0..MaxStacks : \E paired \in BOOLEAN : \E serving \in ServingStacks(n) :
          /\ StackSet.ingress = Nil => serving = {}
          /\ StackContainers =
                {RetentionStack(StackSet, i, paired, i \in serving) : i \in 1..n}
    /\ pc = "mark"
    /\ input = Names(StackContainers)
    /\ newStack = [stack |-> Nil, version |-> ""]
    /\ deployment = Nil
    /\ NothingGenerated

\* The flagged Stacks are deleted and the working set is built from the
\* Stacks that remain; the candidates and the flagged Stacks of the first
\* pass are recorded.
DeleteMarkedStacks ==
    /\ pc = "cleanup"
    /\ previous = Nil
    /\ previous' = Ptr([candidates |-> Cardinality(gcCandidates(StackContainers)),
                        marked |-> Cardinality({sc \in StackContainers :
                                                   sc.PendingRemoval})])
    /\ StackContainers' = {sc \in StackContainers : ~sc.PendingRemoval}
    /\ input' = Names(StackContainers')
    /\ pc' = "mark"
    /\ UNCHANGED <<StackSet, now, newStack, deployment, hpa, service, ingress,
                   err, status, cluster, created>>

NextFixpoint ==
    \/ MarkExpiredStacksStep
    \/ DeleteMarkedStacks

SpecFixpoint == InitFixpoint /\ [][NextFixpoint]_vars

\* MarkExpiredStacks has run on the Stacks the first pass left.
SecondPassDone == pc = "cleanup" /\ previous # Nil

\* C34 as claimed: once every Stack MarkExpiredStacks flagged is deleted and
\* nothing else changed, MarkExpiredStacks flags no Stack of the remaining
\* working set, and exactly limit candidates remain.
C34_FixpointWithLimitCandidates ==
    SecondPassDone =>
        /\ Flagged = {}
        /\ Cardinality(Candidates) = RetentionLimit

\* C34 amended: the second pass flags no Stack, and the candidates that
\* remain are the smaller of limit and the candidates there were: exactly
\* limit if the first pass flagged a Stack, all of them if it flagged none.
C34_FixpointWithAtMostLimitCandidates ==
    SecondPassDone =>
        /\ Flagged = {}
        /\ Cardinality(Candidates) = Min(RetentionLimit, Deref(previous).candidates)
        /\ Deref(previous).marked > 0 => Cardinality(Candidates) = RetentionLimit
        /\ Deref(previous).marked = 0 =>
              Cardinality(Candidates) = Deref(previous).candidates

\* The first pass flagged two or more Stacks of a working set in which a
\* Stack serves traffic; they were deleted, and the second pass flagged none
\* of the limit >= 1 candidates that remain.
C34_Witness ==
    /\ SecondPassDone
    /\ Deref(previous).marked >= 2
    /\ RetentionLimit >= 1
    /\ Flagged = {}
    /\ Cardinality(Candidates) = RetentionLimit
    /\ Cardinality(StackContainers) > RetentionLimit

----------------------------------------------------------------------------
(* The Stack of the current template version under garbage collection,    *)
(* checked under Spec: the user changes the version and the traffic, the  *)
(* clock advances, and the StackSet is reconciled again and again.        *)

\* C35: with limit >= 1, MarkExpiredStacks never flags the Stack of the
\* StackSet's current template version, <stacksetName>-<currentVersion>.
C35_CurrentStackIsNeverMarked ==
    RetentionLimit >= 1 =>
        \A sc \in StackContainers :
            sc.PendingRemoval => sc.name # TemplateStackName

====
